---- MODULE Spec2Model ----
(***************************************************************************)
(* Model of the personal_ratings plugin.                                   *)
(*                                                                         *)
(* Part 1: AsyncUpdater (src/async_updater.py), the single-flight task     *)
(* executor.  The Gtk main thread runs append, stop, _on_timer_event and   *)
(* _on_task_finished, each to completion; the background thread runs       *)
(* _task_worker, which is modelled step by step so that the main thread's  *)
(* handlers interleave with it at every point where the worker does not    *)
(* hold _lock.                                                             *)
(*                                                                         *)
(* The host's call_async_background runs the worker function on a          *)
(* background thread unless the Cancellable is already cancelled, and      *)
(* afterwards invokes the completion callback on the main thread only when *)
(* the Cancellable is still not cancelled ("call_async does not call       *)
(* callback in case if cancelled is set", src/dlg_base.py:333).            *)
(***************************************************************************)
EXTENDS Integers, Sequences, FiniteSets, TLC

\* ------------------------------------------------------------------ bounds
\* Songs handed to append over one run of the model.
MaxItems == 3
\* Largest collection handed to one append call.
MaxBatch == 3
\* How many times the store answers locked/busy before the lock clears.
MaxLocks == 1
\* Background threads the host can run side by side.
MaxWorkers == 2

\* --------------------------------------------------------------- constants
\* src/async_updater.py:137  "try once a second"
LockedRetryMs == 1000
\* src/async_updater.py:148  "Start next async task in 100 ms"
DrainGapMs == 100

WorkerIds == 1..MaxWorkers

\* Outcomes of one _processor call: True, False, a returned Error, a raised
\* sqlite3.Error with SQLITE_LOCKED/SQLITE_BUSY, another raised
\* sqlite3.Error, any other raised exception.
Outcomes == {"succeeded", "skipped", "error", "locked", "db_error", "exception"}

VARIABLES
    cancelled,      \* _cancellable.is_cancelled()
    lock,           \* holder of _lock: 0 (free) or a worker id
    queue,          \* _queue
    timer_id,       \* _timer_id
    is_running,     \* _is_running
    ui_task,        \* _ui_task is not None
    sources,        \* pending GLib timeout sources: [id, delay]
    workers,        \* per background thread: pc, s (song in flight), result
    assert_failed,  \* an assert statement of the code has failed
    locks_left,     \* store: locked/busy answers still to come
    nextId,         \* history: id of the next song handed to append
    plog,           \* history: <<song, outcome>> of every _processor call
    reported,       \* history: results given to _on_task_result_impl
    stopQueue,      \* history: the queue at the first stop()
    lastOp          \* history: the handler or worker step taken last

vars == <<cancelled, lock, queue, timer_id, is_running, ui_task, sources,
          workers, assert_failed, locks_left, nextId, plog, reported,
          stopQueue, lastOp>>

\* TaskProgress.__init__
NewTaskProgress ==
    [total_processed |-> 0, succeeded |-> <<>>, failed |-> <<>>,
     skipped |-> 0, error |-> "None"]

NoWorker == [pc |-> "idle", s |-> 0, result |-> NewTaskProgress]

\* AsyncUpdater.__init__
UpdaterInit ==
    /\ cancelled = FALSE
    /\ lock = 0
    /\ queue = <<>>
    /\ timer_id = 0
    /\ is_running = FALSE
    /\ ui_task = FALSE
    /\ sources = {}
    /\ workers = [w \in WorkerIds |-> NoWorker]
    /\ assert_failed = FALSE
    /\ locks_left = MaxLocks
    /\ nextId = 1
    /\ plog = <<>>
    /\ reported = [succeeded |-> <<>>, failed |-> <<>>, skipped |-> 0]
    /\ stopQueue = <<>>
    /\ lastOp = "init"

InFlight == {w \in WorkerIds : workers[w].pc # "idle"}

\* call_async_background(self._task_worker, self._cancellable,
\*                       callback=self._on_task_finished, ...)
\* hands the worker to a free background thread.
CanSpawn == \E w \in WorkerIds : workers[w].pc = "idle"

FreeSlot ==
    CHOOSE w \in WorkerIds :
        /\ workers[w].pc = "idle"
        /\ \A v \in WorkerIds : workers[v].pc = "idle" => w <= v

call_async_background ==
    [workers EXCEPT ![FreeSlot] = [NoWorker EXCEPT !.pc = "scheduled"]]

\* GLib.timeout_add(timeout, self._on_timer_event): a new source id.
NewSourceId ==
    CHOOSE i \in 1..(Cardinality(sources) + 1) : \A t \in sources : t.id # i

\* ------------------------------------------------------------ main thread
\* stop(): cancel, and remove the pending timer.
stop ==
    /\ cancelled' = TRUE
    /\ IF timer_id # 0
       THEN /\ sources' = {t \in sources : t.id # timer_id}
            /\ timer_id' = 0
       ELSE UNCHANGED <<sources, timer_id>>
    /\ stopQueue' = IF cancelled THEN stopQueue ELSE queue
    /\ lastOp' = "stop"
    /\ UNCHANGED <<lock, queue, is_running, ui_task, workers, assert_failed,
                   locks_left, nextId, plog, reported>>

\* append, line 73: the call is refused once cancelled.
append_refused_always == FALSE

append_refused == cancelled

\* append, line 82: a worker is running or a timer is pending.
append_busy_timer_only == timer_id # 0

append_busy == is_running \/ timer_id # 0

\* append(songs) with n songs, numbered in the order they are handed over.
append(n) ==
    /\ nextId + n - 1 <= MaxItems
    /\ lastOp' = "append"
    /\ IF append_refused
       THEN UNCHANGED <<cancelled, lock, queue, timer_id, is_running, ui_task,
                        sources, workers, assert_failed, locks_left, nextId,
                        plog, reported, stopQueue>>
       ELSE /\ lock = 0
            /\ ui_task' = TRUE
            /\ queue' = queue \o [i \in 1..n |-> nextId + i - 1]
            /\ nextId' = nextId + n
            /\ IF append_busy
               THEN UNCHANGED <<is_running, workers>>
               ELSE /\ CanSpawn
                    /\ is_running' = TRUE
                    /\ workers' = call_async_background
            /\ UNCHANGED <<cancelled, lock, timer_id, sources, assert_failed,
                           locks_left, plog, reported, stopQueue>>

\* _on_timer_event, run by GLib when the source t fires; it returns
\* SOURCE_REMOVE on every path.
on_timer_event(t) ==
    /\ t \in sources
    /\ sources' = sources \ {t}
    /\ timer_id' = 0
    /\ lastOp' = "timer"
    /\ IF cancelled
       THEN UNCHANGED <<ui_task, is_running, workers, assert_failed>>
       ELSE /\ lock = 0
            /\ IF Len(queue) = 0
               THEN /\ ui_task' = FALSE
                    /\ UNCHANGED <<is_running, workers, assert_failed>>
               ELSE IF is_running
                    THEN \* assert not self._is_running
                         /\ assert_failed' = TRUE
                         /\ UNCHANGED <<ui_task, is_running, workers>>
                    ELSE /\ CanSpawn
                         /\ is_running' = TRUE
                         /\ workers' = call_async_background
                         /\ UNCHANGED <<ui_task, assert_failed>>
    /\ UNCHANGED <<cancelled, lock, queue, locks_left, nextId, plog, reported,
                   stopQueue>>

\* _on_task_finished, lines 132-138: the overall error and the retry delay.
finished_error(r) ==
    IF cancelled THEN "CANCELLED"
    ELSE IF r.error = "DB_LOCKED" THEN "None" ELSE r.error

finished_timeout(r) ==
    IF ~cancelled /\ r.error = "DB_LOCKED" THEN LockedRetryMs ELSE 0

\* _on_task_finished, lines 140-148: with songs still queued, either they are
\* failed as cancelled or the next run is timed.
drain_timeout_immediate(q_size, err, timeout) == 0

drain_timeout(q_size, err, timeout) ==
    IF q_size > 0 /\ err = "None" THEN DrainGapMs ELSE timeout

finished_failed(r, q_size, err) ==
    IF q_size > 0 /\ err # "None"
    THEN r.failed \o [i \in 1..q_size |-> <<queue[i], "CANCELLED">>]
    ELSE r.failed

\* _on_task_finished(result) for the worker w.
on_task_finished(w) ==
    LET r       == workers[w].result
        q_size  == Len(queue)
        err     == finished_error(r)
        failed  == finished_failed(r, q_size, err)
        timeout == drain_timeout(q_size, err, finished_timeout(r))
    IN  /\ is_running' = FALSE
        /\ IF q_size > 0 /\ err = "None" /\ timer_id # 0
           THEN \* assert self._timer_id == 0
                /\ assert_failed' = TRUE
                /\ UNCHANGED <<reported, timer_id, sources, ui_task>>
           ELSE /\ reported' =
                      [succeeded |-> reported.succeeded \o r.succeeded,
                       failed    |-> reported.failed \o failed,
                       skipped   |-> reported.skipped + r.skipped]
                /\ IF timeout # 0
                   THEN /\ timer_id' = NewSourceId
                        /\ sources' = sources \cup
                               {[id |-> NewSourceId, delay |-> timeout]}
                        /\ UNCHANGED ui_task
                   ELSE /\ ui_task' = FALSE
                        /\ UNCHANGED <<timer_id, sources>>
                /\ UNCHANGED assert_failed

\* The host's completion step on the main thread: the callback is called
\* only when the Cancellable is not cancelled.
callback_main(w) ==
    /\ workers[w].pc = "finished"
    /\ workers' = [workers EXCEPT ![w] = NoWorker]
    /\ lastOp' = "finished"
    /\ IF cancelled
       THEN UNCHANGED <<is_running, reported, timer_id, sources, ui_task,
                        assert_failed>>
       ELSE on_task_finished(w)
    /\ UNCHANGED <<cancelled, lock, queue, locks_left, nextId, plog,
                   stopQueue>>

\* ------------------------------------------------- background thread
\* _task_worker, lines 172-183, once the host's thread picks the call up:
\* the host does not run the function when the Cancellable is cancelled.
worker_start(w) ==
    /\ workers[w].pc = "scheduled"
    /\ lastOp' = "start"
    /\ IF cancelled
       THEN workers' = [workers EXCEPT ![w] = NoWorker]
       ELSE /\ lock = 0
            /\ workers' = [workers EXCEPT ![w] =
                   [pc |-> "loop", s |-> 0, result |-> NewTaskProgress]]
    /\ UNCHANGED <<cancelled, lock, queue, timer_id, is_running, ui_task,
                   sources, assert_failed, locks_left, nextId, plog,
                   reported, stopQueue>>

\* line 188: with self._lock (enter).
worker_acquire(w) ==
    /\ workers[w].pc = "loop"
    /\ lock = 0
    /\ lock' = w
    /\ workers' = [workers EXCEPT ![w].pc = "locked"]
    /\ lastOp' = "acquire"
    /\ UNCHANGED <<cancelled, queue, timer_id, is_running, ui_task, sources,
                   assert_failed, locks_left, nextId, plog, reported,
                   stopQueue>>

\* The holder of _lock when the with block of lines 188-199 is left.
lock_kept_after_pop(w) == w

lock_after_pop(w) == 0

\* lines 189-202: pop the next song, or leave the loop on an empty queue and
\* return the result (lines 238-240).
worker_pop(w) ==
    /\ workers[w].pc = "locked"
    /\ lock = w
    /\ lock' = lock_after_pop(w)
    /\ lastOp' = "pop"
    /\ IF Len(queue) > 0
       THEN /\ queue' = Tail(queue)
            /\ workers' = [workers EXCEPT ![w].pc = "process",
                                          ![w].s = Head(queue)]
       ELSE /\ workers' = [workers EXCEPT ![w].pc = "finished"]
            /\ UNCHANGED queue
    /\ UNCHANGED <<cancelled, timer_id, is_running, ui_task, sources,
                   assert_failed, locks_left, nextId, plog, reported,
                   stopQueue>>

\* lines 206-214: the result of a processor call that returned.
classify(r, s, outcome) ==
    [r EXCEPT
       !.total_processed = @ + 1,
       !.failed    = IF outcome = "error"
                     THEN Append(@, <<s, "FINGERPRINT_ERROR">>) ELSE @,
       !.succeeded = IF outcome = "succeeded" THEN Append(@, s) ELSE @,
       !.skipped   = IF outcome = "skipped" THEN @ + 1 ELSE @]

\* lines 221-224: the raised sqlite3.Error is SQLITE_LOCKED or SQLITE_BUSY.
is_lock_error_any_db_error(outcome) == outcome \in {"locked", "db_error"}

is_lock_error(outcome) == outcome = "locked"

\* lines 204-236: the processor call on the popped song ends with `outcome`.
worker_process(w, outcome) ==
    LET s == workers[w].s
        r == workers[w].result
    IN  /\ workers[w].pc = "process"
        /\ outcome = "locked" => locks_left > 0
        /\ locks_left' = IF outcome = "locked" THEN locks_left - 1
                         ELSE locks_left
        /\ plog' = Append(plog, <<s, outcome>>)
        /\ lastOp' = "process"
        /\ workers' =
             IF outcome \in {"succeeded", "skipped", "error"}
             THEN IF cancelled
                  THEN [workers EXCEPT
                          ![w].result = [classify(r, s, outcome)
                                           EXCEPT !.error = "CANCELLED"],
                          ![w].pc = "finished"]
                  ELSE [workers EXCEPT
                          ![w].result = classify(r, s, outcome),
                          ![w].pc = "loop"]
             ELSE IF outcome \in {"locked", "db_error"}
                  THEN IF is_lock_error(outcome)
                       THEN [workers EXCEPT ![w].pc = "requeue"]
                       ELSE [workers EXCEPT
                               ![w].result.failed =
                                   Append(@, <<s, "DB_ERROR">>),
                               ![w].pc = "loop"]
                  ELSE [workers EXCEPT
                          ![w].result.failed = Append(@, <<s, "ERROR">>),
                          ![w].pc = "loop"]
        /\ UNCHANGED <<cancelled, lock, queue, timer_id, is_running, ui_task,
                       sources, assert_failed, nextId, reported, stopQueue>>

\* line 226: self._queue.appendleft(s)
requeue_back(s, q) == q \o <<s>>

requeue_drop(s, q) == q

appendleft(s, q) == <<s>> \o q

\* lines 225-228, 238-240: put the song back under the lock, set DB_LOCKED,
\* leave the loop and return the result.
worker_requeue(w) ==
    /\ workers[w].pc = "requeue"
    /\ lock = 0
    /\ queue' = appendleft(workers[w].s, queue)
    /\ workers' = [workers EXCEPT ![w].result.error = "DB_LOCKED",
                                  ![w].pc = "finished"]
    /\ lastOp' = "requeue"
    /\ UNCHANGED <<cancelled, lock, timer_id, is_running, ui_task, sources,
                   assert_failed, locks_left, nextId, plog, reported,
                   stopQueue>>

\* ------------------------------------------- state of the other parts
\* The plugin's other components keep their own state.  Each part below has
\* a specification of its own; the variables of the parts a specification
\* does not exercise stay at their initial values.
VARIABLES
    fp_raw,         \* fingerprint part: the raw vectors under comparison
    fp_obj,         \* the Fingerprint objects built from them
    fp_res,         \* results of Fingerprint.__eq__
    recs,           \* reconciliation: the DBRecord objects, by identity
    inl,            \* _get_diff: inl
    inr,            \* _get_diff: inr
    inl_copy,       \* _get_diff: inl_copy
    to_addl,        \* _get_diff: to_addl
    to_updl,        \* _get_diff: to_updl
    to_addr,        \* _get_diff: to_addr
    to_updr,        \* _get_diff: to_updr
    timestamp,      \* _get_diff: timestamp (the cutoff)
    diff_pc,        \* _get_diff: position ("step1", "step2", "done", ...)
    orig,           \* history: the records and lists _get_diff was given
    matches,        \* history: the pairs extract_rec has matched
    yg_args,        \* is_younger part: the records compared
    yg_res,         \* results of Record.is_younger
    cd_stream,      \* codec part: the byte stream given to decompress
    cd_raw,         \* history: the raw fingerprint the stream encodes
    cd_res,         \* outcome of FingerprintDecompressor.decompress
    \* DlgBase (src/dlg_base.py)
    dlg_pc,         \* position of the thread running DlgBase._task_worker
    dlg_cancelled,  \* _cancellable.is_cancelled()
    dlg_is_running, \* _is_running
    dlg_batch_size, \* _batch_size
    dlg_songs,      \* songs, the deque of _task_worker
    dlg_count,      \* _count_songs_to_process
    dlg_result,     \* result, the TaskResult of _task_worker
    dlg_progress,   \* progress, the TaskProgress being filled
    dlg_count_batch,\* count_batch
    dlg_forced,     \* idle_add(_on_task_finished, result) is pending
    dlg_sent,       \* history: what _async_update_progress has handed over
    dlg_calls,      \* history: songs _processor was invoked for
    dlg_cancel_queue, \* history: songs queued when cancellation was observed
    dlg_run,        \* history: this run's worker ran; _on_task_finished calls
    \* the stores (src/prdb.py) and the plugin (src/_plugin_impl.py)
    db,             \* rows of the songs table of the local and external PRDB
    now,            \* the clock: time.time(), unixepoch()
    library,        \* the host library: per song its tags
    st_cancelled,   \* PluginImpl._cancellable.is_cancelled()
    st_call,        \* history: the last update_song_if_different call
    ev,             \* history: the last on_added / on_changed call
    st_match,       \* history: the last song a handler matched to a record
    \* repeated reconciliation (src/dlg_sync_with_ext.py)
    conv_runs       \* history: the sync runs started so far

fpVars == <<fp_raw, fp_obj, fp_res>>
diffVars == <<recs, inl, inr, inl_copy, to_addl, to_updl, to_addr, to_updr,
              timestamp, diff_pc, orig, matches>>
ygVars == <<yg_args, yg_res>>
cdVars == <<cd_stream, cd_raw, cd_res>>
dlgVars == <<dlg_pc, dlg_cancelled, dlg_is_running, dlg_batch_size, dlg_songs,
             dlg_count, dlg_result, dlg_progress, dlg_count_batch, dlg_forced,
             dlg_sent, dlg_calls, dlg_cancel_queue, dlg_run>>
stVars == <<db, now, library, st_cancelled, st_call, ev, st_match>>
convVars == <<conv_runs>>

allVars == <<vars, fpVars, diffVars, ygVars, cdVars, dlgVars, stVars,
             convVars>>

\* Nothing constructed, nothing called.
FpIdle == fp_raw = <<>> /\ fp_obj = <<>> /\ fp_res = <<>>
DiffIdle ==
    /\ recs = <<>> /\ inl = <<>> /\ inr = <<>> /\ inl_copy = <<>>
    /\ to_addl = <<>> /\ to_updl = <<>> /\ to_addr = <<>> /\ to_updr = <<>>
    /\ timestamp = 0 /\ diff_pc = "idle" /\ orig = <<>> /\ matches = {}
YgIdle == yg_args = <<>> /\ yg_res = <<>>
CdIdle == cd_stream = <<>> /\ cd_raw = <<>> /\ cd_res = <<>>
DlgIdle ==
    /\ dlg_pc = "idle" /\ dlg_cancelled = FALSE /\ dlg_is_running = FALSE
    /\ dlg_batch_size = 0 /\ dlg_songs = <<>> /\ dlg_count = 0
    /\ dlg_result = <<>> /\ dlg_progress = <<>> /\ dlg_count_batch = 0
    /\ dlg_forced = FALSE /\ dlg_sent = <<>> /\ dlg_calls = {}
    /\ dlg_cancel_queue = <<>> /\ dlg_run = <<>>
StIdle ==
    /\ db = <<>> /\ now = 0 /\ library = <<>> /\ st_cancelled = FALSE
    /\ st_call = <<>> /\ ev = <<>> /\ st_match = <<>>
ConvIdle == conv_runs = 0

\* ---------------------------------------------------------- specification
UpdaterFrame == UNCHANGED <<fpVars, diffVars, ygVars, cdVars, dlgVars, stVars,
      convVars>>

UpdaterNext ==
    \/ stop /\ UpdaterFrame
    \/ \E n \in 0..MaxBatch : append(n) /\ UpdaterFrame
    \/ \E t \in sources : on_timer_event(t) /\ UpdaterFrame
    \/ \E w \in WorkerIds : callback_main(w) /\ UpdaterFrame
    \/ \E w \in WorkerIds : worker_start(w) /\ UpdaterFrame
    \/ \E w \in WorkerIds : worker_acquire(w) /\ UpdaterFrame
    \/ \E w \in WorkerIds : worker_pop(w) /\ UpdaterFrame
    \/ \E w \in WorkerIds, outcome \in Outcomes :
           worker_process(w, outcome) /\ UpdaterFrame
    \/ \E w \in WorkerIds : worker_requeue(w) /\ UpdaterFrame

\* The updater constructed, the other parts untouched.
UpdaterStart == UpdaterInit /\ FpIdle /\ DiffIdle /\ YgIdle /\ CdIdle /\ DlgIdle /\ StIdle
    /\ ConvIdle

UpdaterSpec == UpdaterStart /\ [][UpdaterNext]_allVars

\* The same executor when stop() is never called, with the scheduling the
\* host guarantees: a started thread keeps running, GLib fires a pending
\* timer and runs a queued completion callback.  Calls of append are up to
\* the environment, and the store answers locked at most MaxLocks times.
UpdaterNextNoStop ==
    \/ \E n \in 0..MaxBatch : append(n) /\ UpdaterFrame
    \/ \E t \in sources : on_timer_event(t) /\ UpdaterFrame
    \/ \E w \in WorkerIds : callback_main(w) /\ UpdaterFrame
    \/ \E w \in WorkerIds : worker_start(w) /\ UpdaterFrame
    \/ \E w \in WorkerIds : worker_acquire(w) /\ UpdaterFrame
    \/ \E w \in WorkerIds : worker_pop(w) /\ UpdaterFrame
    \/ \E w \in WorkerIds, outcome \in Outcomes :
           worker_process(w, outcome) /\ UpdaterFrame
    \/ \E w \in WorkerIds : worker_requeue(w) /\ UpdaterFrame

UpdaterFairSpec ==
    /\ UpdaterStart
    /\ [][UpdaterNextNoStop]_allVars
    /\ WF_allVars(\E t \in sources : on_timer_event(t) /\ UpdaterFrame)
    /\ WF_allVars(\E w \in WorkerIds : callback_main(w) /\ UpdaterFrame)
    /\ WF_allVars(\E w \in WorkerIds : worker_start(w) /\ UpdaterFrame)
    /\ WF_allVars(\E w \in WorkerIds : worker_acquire(w) /\ UpdaterFrame)
    /\ WF_allVars(\E w \in WorkerIds : worker_pop(w) /\ UpdaterFrame)
    /\ WF_allVars(\E w \in WorkerIds, outcome \in Outcomes :
                      worker_process(w, outcome) /\ UpdaterFrame)
    /\ WF_allVars(\E w \in WorkerIds : worker_requeue(w) /\ UpdaterFrame)

\* ----------------------------------------------------------------- claims
Range(q) == {q[i] : i \in 1..Len(q)}

\* A worker was handed to the host in this step.
WorkerStarted ==
    \E w \in WorkerIds : workers[w].pc = "idle" /\ workers'[w].pc = "scheduled"

\* The completion callback _on_task_finished runs in this step for w.
TaskFinishedStep(w) ==
    /\ workers[w].pc = "finished"
    /\ workers'[w].pc = "idle"
    /\ ~cancelled

\* The processor call of w on song s ends with outcome o in this step.
ProcessStep(w, s, o) ==
    /\ workers[w].pc = "process"
    /\ workers[w].s = s
    /\ plog' = Append(plog, <<s, o>>)

\* C1: at most one worker is in flight in every reachable state, and append
\* starts a worker only when none is running and no timer is pending.
C1_SingleFlight ==
    /\ [](Cardinality(InFlight) <= 1)
    /\ [][(lastOp' = "append" /\ WorkerStarted)
             => (InFlight = {} /\ ~is_running /\ timer_id = 0
                 /\ sources = {})]_vars

\* append was called while the worker was processing a song.
C1_Witness ==
    /\ lastOp = "append"
    /\ queue # <<>>
    /\ \E w \in WorkerIds : workers[w].pc = "process"

\* C2: processor calls follow the order of append: a song is never processed
\* after a later song, is processed again only after a locked outcome, and
\* the queue stays in append order behind the song in flight; with 3 songs
\* appended and the 2nd locked, song 1 is succeeded and the queue is [2, 3].
C2_Ordering ==
    /\ \A i, j \in 1..Len(plog) :
          i < j => /\ plog[i][1] <= plog[j][1]
                   /\ plog[i][1] = plog[j][1] => plog[i][2] = "locked"
    /\ \A i, j \in 1..Len(queue) : i < j => queue[i] < queue[j]
    /\ \A w \in WorkerIds :
          (workers[w].pc = "finished" /\ lastOp = "requeue" /\ nextId = 4
           /\ plog = <<<<1, "succeeded">>, <<2, "locked">>>>)
             => /\ queue = <<2, 3>>
                /\ reported.succeeded \o workers[w].result.succeeded = <<1>>
                /\ reported.failed \o workers[w].result.failed = <<>>
                /\ workers[w].result.error = "DB_LOCKED"

\* Song 2 hit the locked store once; 1, 2, 3 completed in that order.
C2_Witness ==
    plog = <<<<1, "succeeded">>, <<2, "locked">>,
             <<2, "succeeded">>, <<3, "succeeded">>>>

\* C3: after a locked/busy error the song is back at the front of the queue,
\* the worker has stopped, and the completion callback arms the retry timer
\* with the backoff of 1000 ms.
C3_LockedBackoff ==
    /\ [](\A w \in WorkerIds :
            (workers[w].pc = "finished"
             /\ workers[w].result.error = "DB_LOCKED")
               => (queue # <<>> /\ Head(queue) = workers[w].s))
    /\ [][\A w \in WorkerIds :
            (TaskFinishedStep(w) /\ workers[w].result.error = "DB_LOCKED")
               => /\ timer_id' # 0
                  /\ [id |-> timer_id', delay |-> LockedRetryMs] \in sources'
                  /\ ~WorkerStarted]_vars

\* The CANCELLED failures given to _on_task_result_impl.
CancelledReported ==
    SelectSeq(reported.failed, LAMBDA f : f[2] = "CANCELLED")

\* C4: once the executor is cancelled and no worker is left, the N songs that
\* were queued at stop() have been reported failed with CANCELLED, exactly
\* one failure per song.
C4_CancelReportsQueued ==
    (cancelled /\ InFlight = {})
       => CancelledReported =
             [i \in 1..Len(stopQueue) |-> <<stopQueue[i], "CANCELLED">>]

\* C5: after stop() the executor stays cancelled, no worker is started, no
\* timer is pending and _timer_id stays 0, and append leaves the queue as
\* it is.
C5_AfterStop ==
    /\ [](cancelled => (timer_id = 0 /\ sources = {}))
    /\ [][cancelled
             => /\ cancelled'
                /\ timer_id' = 0
                /\ sources' = {}
                /\ ~WorkerStarted
                /\ (~is_running => ~is_running')
                /\ (lastOp' = "append"
                      => (queue' = queue /\ nextId' = nextId
                          /\ workers' = workers))]_vars

\* append was called after stop(), with songs queued and no worker left.
C5_Witness ==
    /\ cancelled
    /\ lastOp = "append"
    /\ queue # <<>>
    /\ InFlight = {}

FailOutcomes == {"error", "db_error", "exception"}

FailCode(o) ==
    IF o = "error" THEN "FINGERPRINT_ERROR"
    ELSE IF o = "db_error" THEN "DB_ERROR" ELSE "ERROR"

\* What every failing processor call does: the song, and only the song, is
\* added to the failed list of the run with its error, the queue is left
\* alone and no DB_LOCKED retry is requested.
FailureRecorded(w, s, o) ==
    /\ workers'[w].result.failed =
           Append(workers[w].result.failed, <<s, FailCode(o)>>)
    /\ workers'[w].result.succeeded = workers[w].result.succeeded
    /\ workers'[w].result.skipped = workers[w].result.skipped
    /\ workers'[w].result.error # "DB_LOCKED"
    /\ queue' = queue
    /\ timer_id' = timer_id

\* A failed song is never queued or processed again.
FailureIsFinal ==
    \A i \in 1..Len(plog) :
        plog[i][2] \in FailOutcomes
           => /\ plog[i][1] \notin Range(queue)
              /\ \A j \in 1..Len(plog) : j > i => plog[j][1] # plog[i][1]
              /\ \A w \in WorkerIds :
                    workers[w].pc \in {"process", "requeue"}
                       => workers[w].s # plog[i][1]

\* C6 (as stated): a returned Error or a raised non-lock exception is
\* recorded against that song alone, the song is not re-queued, no retry is
\* scheduled, and the worker goes on to the next queued song in the same run.
C6_ItemScopedFailure_Original ==
    /\ [](FailureIsFinal)
    /\ [][\A w \in WorkerIds, s \in 1..MaxItems, o \in FailOutcomes :
            ProcessStep(w, s, o)
               => (FailureRecorded(w, s, o) /\ workers'[w].pc = "loop")]_vars

\* C6 (amended): as above, and the worker goes on to the next queued song
\* unless the processor returned an Error after cancellation was requested,
\* in which case the run ends with the overall error CANCELLED.
C6_ItemScopedFailure ==
    /\ [](FailureIsFinal)
    /\ [][\A w \in WorkerIds, s \in 1..MaxItems, o \in FailOutcomes :
            ProcessStep(w, s, o)
               => /\ FailureRecorded(w, s, o)
                  /\ IF o = "error" /\ cancelled
                     THEN /\ workers'[w].pc = "finished"
                          /\ workers'[w].result.error = "CANCELLED"
                     ELSE /\ workers'[w].pc = "loop"
                          /\ workers'[w].result.error = "None"]_vars

\* One run in which song 1 raised a non-lock sqlite error, song 2 returned an
\* Error and song 3 was processed after them.
C6_Witness ==
    /\ plog = <<<<1, "db_error">>, <<2, "error">>, <<3, "succeeded">>>>
    /\ \E w \in WorkerIds :
          /\ workers[w].result.failed =
                 <<<<1, "DB_ERROR">>, <<2, "FINGERPRINT_ERROR">>>>
          /\ workers[w].result.succeeded = <<3>>

\* How many processor calls classified song i (any outcome but locked).
ClassifiedCount(i) ==
    Cardinality({k \in 1..Len(plog) :
                    plog[k][1] = i /\ plog[k][2] # "locked"})

\* Songs whose classification has reached _on_task_result_impl.
Delivered ==
    Len(reported.succeeded) + Len(reported.failed) + reported.skipped

\* C7: without cancellation, every song handed to append is classified by
\* exactly one processor call, and all classifications up to it reach the
\* result callback; no song is ever classified twice.
C7_NoWorkLost ==
    /\ [](\A i \in 1..MaxItems : ClassifiedCount(i) <= 1)
    /\ [](Delivered < nextId)
    /\ \A i \in 1..MaxItems :
          (nextId > i) ~> (ClassifiedCount(i) = 1 /\ Delivered >= i)

\* All songs were handed over in several calls, the store was locked on the
\* way, and every song has been classified and delivered.
C7_Witness ==
    /\ nextId = MaxItems + 1
    /\ locks_left = 0
    /\ \A i \in 1..MaxItems : ClassifiedCount(i) = 1
    /\ Delivered = MaxItems
    /\ InFlight = {}
    /\ timer_id = 0

\* C8: when the completion callback runs for a result without error and
\* without cancellation: with songs queued it arms a 100 ms timer and starts
\* no worker; with an empty queue it arms nothing and the executor is idle.
\* While a timer is pending a worker is started only by the timer event.
C8_DrainScheduling ==
    /\ [][\A w \in WorkerIds :
            (TaskFinishedStep(w) /\ workers[w].result.error = "None")
               => /\ ~WorkerStarted
                  /\ InFlight' = {}
                  /\ ~is_running'
                  /\ IF queue # <<>>
                     THEN /\ timer_id' # 0
                          /\ sources' = {[id |-> timer_id', delay |-> 100]}
                     ELSE /\ timer_id' = 0
                          /\ sources' = {}
                          /\ ~ui_task']_vars
    /\ [][(WorkerStarted /\ timer_id # 0) => lastOp' = "timer"]_vars

\* A run ended without error while a song was queued: the 100 ms timer is
\* pending and nothing runs.
C8_Witness ==
    /\ lastOp = "finished"
    /\ locks_left = MaxLocks
    /\ queue # <<>>
    /\ timer_id # 0
    /\ sources = {[id |-> timer_id, delay |-> DrainGapMs]}
    /\ InFlight = {}

\* C9: after every processor call, whatever its outcome but locked, the
\* worker checks the cancellation token before it pops the next song: a call
\* that ends after cancellation was requested ends the run.
C9_CancelCheckedAfterEveryItem ==
    [][\A w \in WorkerIds, s \in 1..MaxItems, o \in Outcomes \ {"locked"} :
         (ProcessStep(w, s, o) /\ cancelled)
            => /\ workers'[w].pc = "finished"
               /\ workers'[w].result.error = "CANCELLED"]_vars

\* C10: the worker never holds _lock while a processor call is in progress;
\* _lock is held only between entering and leaving the pop block.
C10_LockNotHeldWhileProcessing ==
    /\ \A w \in WorkerIds : workers[w].pc = "process" => lock # w
    /\ \A w \in WorkerIds : lock = w <=> workers[w].pc = "locked"
    /\ lock \in {0} \cup WorkerIds

\* append ran to completion while a processor call was in progress.
C10_Witness ==
    /\ lastOp = "append"
    /\ lock = 0
    /\ \E w \in WorkerIds :
          workers[w].pc = "process" /\ workers[w].s < nextId - 1
          /\ queue # <<>> /\ queue[Len(queue)] = nextId - 1

\* C26: in the result every _task_worker run returns, total_processed is
\* the number of songs the run classified:
\* total_processed = len(succeeded) + len(failed) + skipped.
C26_TotalProcessedCountsClassified ==
    \A w \in WorkerIds :
        workers[w].pc = "finished"
           => workers[w].result.total_processed
                 = Len(workers[w].result.succeeded)
                   + Len(workers[w].result.failed)
                   + workers[w].result.skipped

\* C28: a worker is never running while a timer is pending, and neither
\* 'assert not self._is_running' nor 'assert self._timer_id == 0' fails.
C28_NoWorkerWhileTimerPending ==
    /\ ~(is_running /\ timer_id # 0)
    /\ ~assert_failed

\* append was called while a timer was pending and left the worker unstarted.
C28_Witness ==
    /\ lastOp = "append"
    /\ queue # <<>> /\ queue[Len(queue)] = nextId - 1
    /\ timer_id # 0
    /\ ~is_running
    /\ InFlight = {}


\* ===========================================================================
\* Part 2: fingerprints (src/fingerprint.py).
\*
\* A raw fingerprint is a sequence of unsigned 32-bit words.  A word is
\* modelled as the set of the positions of its one bits, so that a ^ b is
\* the symmetric difference, bit_count is the cardinality and (h >> j) & 1
\* is membership of j.  Python indexes from 0, sequences from 1: a[i] of the
\* code is a[i + 1] here.
\* ===========================================================================

\* ------------------------------------------------------------------ bounds
\* Longest raw vector drawn as the unaligned part of an input.
MaxFpLen == 2

\* --------------------------------------------------------------- constants
\* src/fingerprint.py:100  np.zeros(32), range(32)
WordBits == 32
\* src/fingerprint.py:26
ACOUSTID_MAX_BIT_ERROR == 2
\* src/fingerprint.py:27
ACOUSTID_MAX_ALIGN_OFFSET == 120
\* src/fingerprint.py:155  "hamming_distance(...) > 3"
MaxHashDistance == 3

BitPositions == 0..(WordBits - 1)

Max2(x, y) == IF x > y THEN x ELSE y
Min2(x, y) == IF x < y THEN x ELSE y
SetMax(S) == CHOOSE x \in S : \A y \in S : y <= x

\* a ^ b
xor(a, b) == (a \ b) \cup (b \ a)
\* x.bit_count()
bit_count(x) == Cardinality(x)

\* sim_hash, lines 100-104: v after the first n words of data were added.
RECURSIVE sim_hash_votes(_, _)
sim_hash_votes(data, n) ==
    IF n = 0
    THEN [j \in BitPositions |-> 0]
    ELSE LET v == sim_hash_votes(data, n - 1)
         IN  [j \in BitPositions |->
                 v[j] + (IF j \in data[n] THEN 1 ELSE 0)]

majority_non_strict(count, threshold) == count >= threshold
\* sim_hash, line 110: "v[i] > threshold"
majority(count, threshold) == count > threshold

\* sim_hash, lines 95-113
sim_hash(data) ==
    LET v == sim_hash_votes(data, Len(data))
        threshold == Len(data) \div 2
    IN  {i \in BitPositions : majority(v[i], threshold)}

\* hamming_distance, lines 116-117
hamming_distance(a, b) == bit_count(xor(a, b))

\* match_fingerprints, lines 41-42: the values of j the inner loop visits
\* for a given i, range(jbegin, jend).
match_window(i, bsize) ==
    Max2(0, i - ACOUSTID_MAX_ALIGN_OFFSET) ..
        (Min2(bsize, i + ACOUSTID_MAX_ALIGN_OFFSET) - 1)

\* match_fingerprints, lines 40-48: counts[offset] after both loops, the
\* number of visited pairs (i, j) with i - j + bsize = offset whose words
\* differ in at most ACOUSTID_MAX_BIT_ERROR bits.  For one offset the pairs
\* are those with j = i - offset + bsize.
match_counts(a, b) ==
    LET asize == Len(a)
        bsize == Len(b)
    IN  [offset \in 0..(asize + bsize) |->
            Cardinality(
              {i \in Max2(0, offset - bsize) .. Min2(asize - 1, offset - 1) :
                  LET j == i - offset + bsize
                  IN  /\ j \in match_window(i, bsize)
                      /\ bit_count(xor(a[i + 1], b[j + 1]))
                             <= ACOUSTID_MAX_BIT_ERROR})]

\* match_fingerprints, lines 23-51.  The quotient topcount / min(asize,
\* bsize) is kept as the pair <<topcount, min(asize, bsize)>>.
match_fingerprints(a, b) ==
    LET counts == match_counts(a, b)
        topcount == SetMax({counts[o] : o \in DOMAIN counts})
    IN  <<topcount, Min2(Len(a), Len(b))>>

\* Fingerprint.__eq__, line 161: "equal_ratio >= 0.90".  With an empty
\* vector the quotient is 0 / 0, which numpy evaluates to nan, and
\* nan >= 0.90 is False.
ratio_at_least_090(ratio) ==
    /\ ratio[2] # 0
    /\ 100 * ratio[1] >= 90 * ratio[2]

\* Fingerprint.__init__, lines 124-133; fp_hash is <<>> for None and <<h>>
\* for a stored hash h.
Fingerprint__init__(blob, fp_hash) ==
    [_raw_fp |-> blob,
     _hash |-> IF fp_hash = <<>> THEN sim_hash(blob) ELSE fp_hash[1]]

hash_too_far_any_difference(d) == d > 0
\* Fingerprint.__eq__, line 155
hash_too_far(d) == d > MaxHashDistance

\* Fingerprint.__eq__, lines 147-161
Fingerprint__eq__(self, other) ==
    IF hash_too_far(hamming_distance(self._hash, other._hash))
    THEN FALSE
    ELSE ratio_at_least_090(match_fingerprints(self._raw_fp, other._raw_fp))

\* ------------------------------------------------------------------ inputs
\* Words 0, 3 and 7: 0 and 3, 3 and 7 are within the bit error, 0 and 7 are
\* not.
FpWords == {{}, {0, 1}, {0, 1, 2}}

\* Raw vectors of up to n words.
FpBodies(n) == UNION {[1..k -> FpWords] : k \in 0..n}

\* A recording that starts p words late: p words of silence, then the body.
FpShifted(p, body) == [i \in 1..p |-> {}] \o body

\* Alignment drifts: none, the last offset inside the search window on both
\* sides, and the window's edge.
FpDrifts == {0, ACOUSTID_MAX_ALIGN_OFFSET - 1, ACOUSTID_MAX_ALIGN_OFFSET}

\* a with bit j of its k-th word flipped.
FpFlip(a, k, j) == [a EXCEPT ![k] = xor(a[k], {j})]

FpInputPairs ==
    {<<FpShifted(p, x), y>> :
        p \in FpDrifts, x \in FpBodies(MaxFpLen), y \in FpBodies(MaxFpLen)}
    \cup
    UNION {{<<x, FpFlip(x, k, j)>> : k \in DOMAIN x, j \in BitPositions} :
              x \in FpBodies(MaxFpLen)}

\* ----------------------------------------------------------- specification
FpFrame == UNCHANGED <<vars, diffVars, ygVars, cdVars, dlgVars, stVars,
      convVars>>

FpInit ==
    /\ fp_raw \in FpInputPairs
    /\ fp_obj = <<>>
    /\ fp_res = <<>>

\* Fingerprint(raw, None) for both vectors.
fp_construct ==
    /\ fp_obj = <<>>
    /\ fp_obj' = <<Fingerprint__init__(fp_raw[1], <<>>),
                   Fingerprint__init__(fp_raw[2], <<>>)>>
    /\ UNCHANGED <<fp_raw, fp_res>>

\* a == b, b == a, a == a and b == b.
fp_compare ==
    /\ fp_obj # <<>>
    /\ fp_res = <<>>
    /\ fp_res' = <<[ab |-> Fingerprint__eq__(fp_obj[1], fp_obj[2]),
                    ba |-> Fingerprint__eq__(fp_obj[2], fp_obj[1]),
                    aa |-> Fingerprint__eq__(fp_obj[1], fp_obj[1]),
                    bb |-> Fingerprint__eq__(fp_obj[2], fp_obj[2])]>>
    /\ UNCHANGED <<fp_raw, fp_obj>>

FpNext ==
    \/ fp_construct /\ FpFrame
    \/ fp_compare /\ FpFrame

FpStart == FpInit /\ UpdaterInit /\ DiffIdle /\ YgIdle /\ CdIdle /\ DlgIdle /\ StIdle
    /\ ConvIdle

FpSpec == FpStart /\ [][FpNext]_allVars

\* ------------------------------------------------------------------ claims
\* Number of words of raw that have bit j set.
FpBitVotes(raw, j) == Cardinality({i \in DOMAIN raw : j \in raw[i]})

\* a and b have the same length and differ in exactly one bit of one word.
SingleBitFlip(a, b) ==
    /\ Len(a) = Len(b)
    /\ \E k \in DOMAIN a :
          /\ bit_count(xor(a[k], b[k])) = 1
          /\ \A i \in DOMAIN a : i # k => a[i] = b[i]

\* C16: fingerprint equality is reflexive for every non-empty fingerprint
\* and symmetric for all inputs: (a == b) equals (b == a), whatever the
\* lengths and the alignment drift inside the search window.
C16_EqReflexiveSymmetric ==
    fp_res # <<>> =>
        /\ fp_res[1].ab = fp_res[1].ba
        /\ Len(fp_raw[1]) > 0 => fp_res[1].aa
        /\ Len(fp_raw[2]) > 0 => fp_res[1].bb

\* C17: two fingerprints built from raw vectors of the same length that
\* differ by a single bit flip in one word have summary hashes at Hamming
\* distance at most 1 and compare equal.
C17_SingleBitFlipTolerated ==
    (fp_res # <<>> /\ SingleBitFlip(fp_raw[1], fp_raw[2])) =>
        /\ hamming_distance(fp_obj[1]._hash, fp_obj[2]._hash) <= 1
        /\ fp_res[1].ab
        /\ fp_res[1].ba

\* The flip changes the summary hash and the vectors still compare equal.
C17_Witness ==
    /\ fp_res # <<>>
    /\ SingleBitFlip(fp_raw[1], fp_raw[2])
    /\ Len(fp_raw[1]) = 2
    /\ hamming_distance(fp_obj[1]._hash, fp_obj[2]._hash) = 1
    /\ fp_res[1].ab

\* C18: the summary hash is a strict majority vote: bit j of the hash is 1
\* iff the number of words with bit j set is strictly greater than
\* len(raw) // 2; a bit set in exactly len(raw) // 2 words yields 0.
C18_StrictMajority ==
    fp_obj # <<>> =>
        \A s \in 1..2 : \A j \in BitPositions :
            /\ j \in fp_obj[s]._hash
                   <=> FpBitVotes(fp_raw[s], j) > Len(fp_raw[s]) \div 2
            /\ FpBitVotes(fp_raw[s], j) = Len(fp_raw[s]) \div 2
                   => j \notin fp_obj[s]._hash

\* One bit is set in exactly half of the words and is 0 in the hash, while
\* another bit is set in more than half and is 1.
C18_Witness ==
    /\ fp_obj # <<>>
    /\ Len(fp_raw[1]) = 2
    /\ \E j \in BitPositions :
          /\ FpBitVotes(fp_raw[1], j) = 1
          /\ j \notin fp_obj[1]._hash
    /\ \E j \in BitPositions :
          /\ FpBitVotes(fp_raw[1], j) = 2
          /\ j \in fp_obj[1]._hash

\* ===========================================================================
\* Part 3: reconciliation of two stores (src/dlg_sync_with_ext.py).
\*
\* Dlg._get_diff works on lists of DBRecord objects and changes the objects
\* in place, and inl_copy holds the very objects of inl.  The objects are
\* therefore kept in a heap, recs, and the lists hold references (indices
\* into recs).  One loop iteration is one action, since the cancellation
\* flag is read once at the top of an iteration and once in _step.
\* ===========================================================================

\* ------------------------------------------------------------------ bounds
\* Records per store.
MaxRecs == 2
\* Largest updated_at of a record, and largest cutoff.
MaxTs == 2

\* Python's None, for updated_at.
None == -1

\* Ratings a record can hold; _get_diff only compares them for equality.
Ratings == {1, 2}

\* The Fingerprint objects the records refer to: the one-word vectors 0, 3
\* and 7 and the vector 3 recorded ACOUSTID_MAX_ALIGN_OFFSET words late.
\* Equality is not transitive on them (0 == 3, 3 == 7, not 0 == 7).
DiffFps ==
    <<Fingerprint__init__(<<{}>>, <<>>),
      Fingerprint__init__(<<{0, 1}>>, <<>>),
      Fingerprint__init__(<<{0, 1, 2}>>, <<>>),
      Fingerprint__init__(FpShifted(ACOUSTID_MAX_ALIGN_OFFSET, <<{0, 1}>>),
                          <<>>)>>

\* self.fp == other.fp for every pair of those objects.
DiffFpEq ==
    [i \in DOMAIN DiffFps |->
        [j \in DOMAIN DiffFps |-> Fingerprint__eq__(DiffFps[i], DiffFps[j])]]

\* r.fp == rec.fp, with r the object whose __eq__ runs.
fp_eq(r, rec) == DiffFpEq[r.fp][rec.fp]

\* DBRecord: the fields _get_diff reads or writes.
DBRecords ==
    [fp : DOMAIN DiffFps, rating : Ratings,
     updated_at : {None} \cup 1..MaxTs]

\* DBRecordBase.timestamp
timestamp_of(rec) == IF rec.updated_at = None THEN 0 ELSE rec.updated_at

\* helpers.are_equal, applied to two ratings.
are_equal(a, b) == a = b

\* The contents of one store: up to MaxRecs records whose fingerprints are
\* unique within the store (no two compare equal, in either order).
StoreContents ==
    {st \in UNION {[1..n -> DBRecords] : n \in 0..MaxRecs} :
        \A i, j \in DOMAIN st :
            i # j => ~fp_eq(st[i], st[j])}

\* extract_rec, lines 84-90: the index of the first record r of db_records
\* with r.fp == rec.fp, 0 when the loop ends without a hit.
extract_index(rec, db_records) ==
    LET hits == {i \in DOMAIN db_records :
                    fp_eq(recs[db_records[i]], recs[rec])}
    IN  IF hits = {} THEN 0
        ELSE CHOOSE i \in hits : \A k \in hits : i <= k

\* list.pop(index), the list that remains.
pop_at(list, i) == SubSeq(list, 1, i - 1) \o SubSeq(list, i + 1, Len(list))

below_cutoff_never(rec) == FALSE
\* _get_diff, lines 194 and 226: "rec.timestamp() < timestamp"
below_cutoff(rec) == timestamp_of(rec) < timestamp

\* _get_diff, lines 204-215 and 236-247: the comparison of a matched pair
\* and the update it plans; the heap and the update lists afterwards.
resolve(recl, recr) ==
    IF are_equal(recs[recl].rating, recs[recr].rating)
    THEN [recs |-> recs, to_updl |-> to_updl, to_updr |-> to_updr]
    ELSE LET l_ts == timestamp_of(recs[recl])
             r_ts == timestamp_of(recs[recr])
         IN  IF l_ts < r_ts
             THEN [recs |-> [recs EXCEPT
                                ![recl].rating = recs[recr].rating,
                                ![recl].updated_at = r_ts],
                   to_updl |-> Append(to_updl, recl),
                   to_updr |-> to_updr]
             ELSE [recs |-> [recs EXCEPT
                                ![recr].rating = recs[recl].rating,
                                ![recr].updated_at = l_ts],
                   to_updl |-> to_updl,
                   to_updr |-> Append(to_updr, recr)]

unmatched_left_dropped(recl) == to_addr
\* _get_diff, line 202: to_addr.append(recl)
unmatched_left(recl) == Append(to_addr, recl)

\* _get_diff, line 234: to_addl.append(recr)
unmatched_right(recr) == Append(to_addl, recr)

\* _task_worker calls _get_diff(loc_songs, ext_songs, timestamp, ...);
\* lines 146-184: empty plan lists, inl_copy = list(inl).
get_diff_call ==
    /\ diff_pc = "call"
    /\ inl_copy' = inl
    /\ to_addl' = <<>> /\ to_updl' = <<>>
    /\ to_addr' = <<>> /\ to_updr' = <<>>
    /\ diff_pc' = "run"
    /\ UNCHANGED <<recs, inl, inr, timestamp, orig, matches>>

\* One iteration of the loop of step 1 that reaches its end or a continue.
step1 ==
    /\ diff_pc = "run"
    /\ inl # <<>>
    /\ LET recl == Head(inl)
           k == extract_index(recl, inr)
       IN  /\ inl' = Tail(inl)
           /\ IF below_cutoff(recs[recl])
              THEN UNCHANGED <<recs, inr, to_updl, to_addr, to_updr, matches>>
              ELSE IF k = 0
              THEN /\ to_addr' = unmatched_left(recl)
                   /\ UNCHANGED <<recs, inr, to_updl, to_updr, matches>>
              ELSE LET recr == inr[k]
                       after == resolve(recl, recr)
                   IN  /\ inr' = pop_at(inr, k)
                       /\ recs' = after.recs
                       /\ to_updl' = after.to_updl
                       /\ to_updr' = after.to_updr
                       /\ matches' = matches \cup
                              {[l |-> recl, r |-> recr, step |-> 1]}
                       /\ UNCHANGED to_addr
    /\ UNCHANGED <<inl_copy, to_addl, timestamp, diff_pc, orig>>

\* One iteration of the loop of step 2 that reaches its end or a continue.
step2 ==
    /\ diff_pc = "run"
    /\ inl = <<>>
    /\ inr # <<>>
    /\ LET recr == Head(inr)
           k == extract_index(recr, inl_copy)
       IN  /\ inr' = Tail(inr)
           /\ IF below_cutoff(recs[recr])
              THEN UNCHANGED <<recs, inl_copy, to_addl, to_updl, to_updr,
                               matches>>
              ELSE IF k = 0
              THEN /\ to_addl' = unmatched_right(recr)
                   /\ UNCHANGED <<recs, inl_copy, to_updl, to_updr, matches>>
              ELSE LET recl == inl_copy[k]
                       after == resolve(recl, recr)
                   IN  /\ inl_copy' = pop_at(inl_copy, k)
                       /\ recs' = after.recs
                       /\ to_updl' = after.to_updl
                       /\ to_updr' = after.to_updr
                       /\ matches' = matches \cup
                              {[l |-> recl, r |-> recr, step |-> 2]}
                       /\ UNCHANGED to_addl
    /\ UNCHANGED <<inl, to_addr, timestamp, diff_pc, orig>>

\* An iteration that finds the Cancellable cancelled, at the top of either
\* loop (lines 189, 221) or in _step (line 167): CancelledError is raised
\* and no plan is returned.
get_diff_cancelled ==
    /\ diff_pc = "run"
    /\ inl # <<>> \/ inr # <<>>
    /\ diff_pc' = "cancelled"
    /\ UNCHANGED <<recs, inl, inr, inl_copy, to_addl, to_updl, to_addr,
                   to_updr, timestamp, orig, matches>>

\* Line 252: return (to_addl, to_updl, to_addr, to_updr)
get_diff_return ==
    /\ diff_pc = "run"
    /\ inl = <<>>
    /\ inr = <<>>
    /\ diff_pc' = "done"
    /\ UNCHANGED <<recs, inl, inr, inl_copy, to_addl, to_updl, to_addr,
                   to_updr, timestamp, orig, matches>>

\* ----------------------------------------------------------- specification
\* _task_worker, lines 308-333: the records of both stores as loaded by
\* prdb.get_songs, and the cutoff (0 when the age is 0).
DiffInit ==
    \E left \in StoreContents, right \in StoreContents :
        /\ recs = left \o right
        /\ inl = [i \in 1..Len(left) |-> i]
        /\ inr = [i \in 1..Len(right) |-> Len(left) + i]
        /\ timestamp \in {0, MaxTs}
        /\ orig = [recs |-> left \o right,
                   left |-> {i : i \in 1..Len(left)},
                   right |-> {Len(left) + i : i \in 1..Len(right)}]
        /\ inl_copy = <<>>
        /\ to_addl = <<>> /\ to_updl = <<>>
        /\ to_addr = <<>> /\ to_updr = <<>>
        /\ diff_pc = "call"
        /\ matches = {}

DiffFrame == UNCHANGED <<vars, fpVars, ygVars, cdVars, dlgVars, stVars,
      convVars>>

DiffNext ==
    \/ get_diff_call /\ DiffFrame
    \/ step1 /\ DiffFrame
    \/ step2 /\ DiffFrame
    \/ get_diff_cancelled /\ DiffFrame
    \/ get_diff_return /\ DiffFrame

DiffStart == DiffInit /\ UpdaterInit /\ FpIdle /\ YgIdle /\ CdIdle /\ DlgIdle /\ StIdle
    /\ ConvIdle

DiffSpec == DiffStart /\ [][DiffNext]_allVars

\* ------------------------------------------------------------------ claims
\* The records of the other store, for a record x given to _get_diff.
OtherSide(x) == IF x \in orig.left THEN orig.right ELSE orig.left

\* x and y have fingerprints that compare equal, in one order or the other.
FpEqual(x, y) ==
    fp_eq(orig.recs[x], orig.recs[y]) \/ fp_eq(orig.recs[y], orig.recs[x])

\* x has no fingerprint-equal record in the other store.
Unmatched(x) == \A y \in OtherSide(x) : ~FpEqual(x, y)

AddLists == Range(to_addl) \cup Range(to_addr)
UpdateLists == Range(to_updl) \cup Range(to_updr)

\* The activity timestamp a record had when _get_diff was called.
OrigTs(x) == timestamp_of(orig.recs[x])

\* C11: without a cutoff, every left record with no fingerprint-equal record
\* on the right is queued into add_to_right, every right record with no
\* fingerprint-equal record on the left into add_to_left, and no such record
\* is in an update list; for left = [F1], right = [F2], not equal, the plan
\* is add_to_right = [F1], add_to_left = [F2] with both update lists empty.
C11_UnmatchedAreAdded ==
    (diff_pc = "done" /\ timestamp = 0) =>
        /\ \A x \in DOMAIN orig.recs :
              Unmatched(x) =>
                  /\ x \in orig.left => x \in Range(to_addr)
                  /\ x \in orig.right => x \in Range(to_addl)
                  /\ x \notin UpdateLists
        /\ (orig.left = {1} /\ orig.right = {2} /\ Unmatched(1)) =>
              /\ to_addr = <<1>>
              /\ to_addl = <<2>>
              /\ to_updl = <<>>
              /\ to_updr = <<>>

\* left = [F1], right = [F2], not equal: each is added to the other store.
C11_Witness ==
    /\ diff_pc = "done"
    /\ timestamp = 0
    /\ orig.left = {1} /\ orig.right = {2}
    /\ Unmatched(1)
    /\ to_addr = <<1>>
    /\ to_addl = <<2>>

\* C12: for a matched pair whose stats differ, the older record is the one
\* queued, carrying the younger record's stats and timestamp, into the
\* update list of the store that held the older data, and the younger record
\* is queued nowhere; with the left record older the plan has the left
\* record in update_left with the right's stats and updated_at.
C12_OlderRecordIsUpdated ==
    diff_pc = "done" =>
        /\ \A m \in matches :
              LET l == orig.recs[m.l]
                  r == orig.recs[m.r]
              IN  ~are_equal(l.rating, r.rating) =>
                      /\ OrigTs(m.l) < OrigTs(m.r) =>
                            /\ m.l \in Range(to_updl)
                            /\ recs[m.l].rating = r.rating
                            /\ recs[m.l].updated_at = OrigTs(m.r)
                            /\ m.l \notin AddLists
                            /\ m.r \notin AddLists \cup UpdateLists
                            /\ recs[m.r] = r
                      /\ OrigTs(m.r) < OrigTs(m.l) =>
                            /\ m.r \in Range(to_updr)
                            /\ recs[m.r].rating = l.rating
                            /\ recs[m.r].updated_at = OrigTs(m.l)
                            /\ m.r \notin AddLists
                            /\ m.l \notin AddLists \cup UpdateLists
                            /\ recs[m.l] = l
        /\ ( /\ orig.left = {1} /\ orig.right = {2}
             /\ FpEqual(1, 2)
             /\ timestamp = 0
             /\ ~are_equal(orig.recs[1].rating, orig.recs[2].rating)
             /\ OrigTs(1) < OrigTs(2) ) =>
               /\ to_updl = <<1>>
               /\ recs[1].rating = orig.recs[2].rating
               /\ recs[1].updated_at = OrigTs(2)
               /\ to_updr = <<>>
               /\ to_addl = <<>>
               /\ to_addr = <<>>

\* C13: a matched pair with equal stats plans nothing: neither record of
\* the pair is in add_to_left, add_to_right, update_left or update_right.
C13_EqualPairPlansNothing ==
    diff_pc = "done" =>
        \A m \in matches :
            are_equal(orig.recs[m.l].rating, orig.recs[m.r].rating) =>
                /\ m.l \notin AddLists \cup UpdateLists
                /\ m.r \notin AddLists \cup UpdateLists

\* C14 as stated: a record whose activity timestamp is below the cutoff is
\* in none of the four plan lists and is never modified, also when its
\* fingerprint-equal counterpart is at or above the cutoff.
C14_BelowCutoffExcluded_Original ==
    \A x \in DOMAIN orig.recs :
        OrigTs(x) < timestamp =>
            /\ x \notin AddLists \cup UpdateLists
            /\ recs[x] = orig.recs[x]

\* The matches in which x was the record found by extract_rec for a record
\* of the other store that passed the cutoff test.
ExtractedFor(x) ==
    {m \in matches : \/ m.step = 1 /\ m.r = x /\ OrigTs(m.l) >= timestamp
                     \/ m.step = 2 /\ m.l = x /\ OrigTs(m.r) >= timestamp}

\* C14: a record whose activity timestamp is below the cutoff is never put
\* in an add list; it is modified or put in an update list only when it was
\* found as the fingerprint match of a record of the other store that is at
\* or above the cutoff, and then only in the update list of its own store.
\* When every fingerprint-equal record of the other store is below the
\* cutoff as well, it is in no list and not modified.
C14_BelowCutoffExcluded ==
    \A x \in DOMAIN orig.recs :
        OrigTs(x) < timestamp =>
            /\ x \notin AddLists
            /\ (x \in UpdateLists \/ recs[x] # orig.recs[x]) =>
                   ExtractedFor(x) # {}
            /\ x \in orig.left => x \notin Range(to_updr)
            /\ x \in orig.right => x \notin Range(to_updl)
            /\ (\A y \in OtherSide(x) :
                    FpEqual(x, y) => OrigTs(y) < timestamp) =>
                   /\ x \notin UpdateLists
                   /\ recs[x] = orig.recs[x]

\* A left record below the cutoff was found for a right record at the
\* cutoff, took its rating and timestamp, and is planned as an update.
C14_Witness ==
    /\ diff_pc = "done"
    /\ timestamp = MaxTs
    /\ orig.left = {1} /\ orig.right = {2}
    /\ OrigTs(1) < timestamp
    /\ OrigTs(2) >= timestamp
    /\ to_updl = <<1>>
    /\ recs[1].rating = orig.recs[2].rating
    /\ recs[1].rating # orig.recs[1].rating
    /\ recs[1].updated_at = OrigTs(2)

\* A list of record references holds no reference twice.
NoRepeats(list) ==
    \A i, j \in DOMAIN list : list[i] = list[j] => i = j

\* The number of plan lists a record is in.
ListsHolding(x) ==
    Cardinality({n \in 1..4 :
        x \in Range(<<to_addl, to_updl, to_addr, to_updr>>[n])})

\* C32: in a returned plan each input record is in at most one of the four
\* lists and at most once in it; add_to_left holds only right records,
\* add_to_right only left records, update_left only left records and
\* update_right only right records.
C32_PlanIsPartitionLike ==
    diff_pc = "done" =>
        /\ NoRepeats(to_addl) /\ NoRepeats(to_updl)
        /\ NoRepeats(to_addr) /\ NoRepeats(to_updr)
        /\ \A x \in DOMAIN orig.recs : ListsHolding(x) <= 1
        /\ Range(to_addl) \subseteq orig.right
        /\ Range(to_addr) \subseteq orig.left
        /\ Range(to_updl) \subseteq orig.left
        /\ Range(to_updr) \subseteq orig.right

\* How often a record is in a list.
Occurrences(x, list) == Cardinality({i \in DOMAIN list : list[i] = x})

\* A left and a right record with equal fingerprints, differing stats and
\* equal activity timestamps, neither of them excluded by the cutoff.
Tie(x, y) ==
    /\ x \in orig.left /\ y \in orig.right
    /\ FpEqual(x, y)
    /\ ~are_equal(orig.recs[x].rating, orig.recs[y].rating)
    /\ OrigTs(x) = OrigTs(y)
    /\ OrigTs(x) >= timestamp

\* C34: for two fingerprint-equal records that the reconciliation paired,
\* with differing stats and equal timestamps, the plan holds exactly one
\* update: the left record is kept as it was and is in no list, the right
\* record is in update_right once, carrying the left's stats and
\* timestamp, and in no other list.
C34_TieKeepsLeft ==
    diff_pc = "done" =>
        \A x, y \in DOMAIN orig.recs :
            (Tie(x, y) /\ \E m \in matches : m.l = x /\ m.r = y) =>
                /\ ListsHolding(x) = 0
                /\ recs[x] = orig.recs[x]
                /\ Occurrences(y, to_updr) = 1
                /\ ListsHolding(y) = 1
                /\ recs[y].rating = orig.recs[x].rating
                /\ recs[y].updated_at = OrigTs(x)

\* ===========================================================================
\* Part 4: the youngest-wins comparator (src/helpers.py, Record.is_younger).
\* ===========================================================================

\* ------------------------------------------------------------------ bounds
\* Largest value of a timestamp or counter of a Record.
MaxStat == 1

\* --------------------------------------------------------------- constants
\* src/helpers.py:25-30, indices of values within the SongStats tuple
IDX_LAST_PLAYED_STAMP == 0
IDX_LAST_STARTED_STAMP == 1
IDX_PLAY_COUNT == 2
IDX_RATING == 3
IDX_SKIP_COUNT == 4
IDX_PLAYLISTS == 5

\* stats[idx] of a Record; Python indexes the tuple from 0.
stat(rec, idx) == rec.stats[idx + 1]

StatValues == 0..MaxStat

\* SongStats, line 22: (last_played, last_started, play_count, rating,
\* skip_count, playlists).  is_younger reads neither rating nor playlists.
SongStats ==
    {<<lp, ls, pc, 0, sc, "">> :
        lp \in StatValues, ls \in StatValues,
        pc \in StatValues, sc \in StatValues}

\* Record, lines 145-164: the fields is_younger reads.  All records drawn
\* have the same fingerprint, which is_younger asserts (line 190).
Records ==
    [fp : {"F1"}, stats : SongStats,
     updated_ts : StatValues, created_ts : StatValues]

created_decides_or_equal(self_ts, other_ts) == self_ts >= other_ts
\* is_younger, lines 212-215: the last link of the chain
created_decides(self_ts, other_ts) == self_ts > other_ts

\* Record.is_younger, lines 188-215
is_younger(self, other) ==
    IF stat(self, IDX_LAST_PLAYED_STAMP) > stat(other, IDX_LAST_PLAYED_STAMP)
    THEN TRUE
    ELSE IF stat(self, IDX_LAST_PLAYED_STAMP)
                < stat(other, IDX_LAST_PLAYED_STAMP)
    THEN FALSE
    ELSE IF stat(self, IDX_LAST_STARTED_STAMP)
                > stat(other, IDX_LAST_STARTED_STAMP)
    THEN TRUE
    ELSE IF stat(self, IDX_LAST_STARTED_STAMP)
                < stat(other, IDX_LAST_STARTED_STAMP)
    THEN FALSE
    ELSE IF stat(self, IDX_SKIP_COUNT) > stat(other, IDX_SKIP_COUNT)
    THEN TRUE
    ELSE IF stat(self, IDX_SKIP_COUNT) < stat(other, IDX_SKIP_COUNT)
    THEN FALSE
    ELSE IF stat(self, IDX_PLAY_COUNT) > stat(other, IDX_PLAY_COUNT)
    THEN TRUE
    ELSE IF stat(self, IDX_PLAY_COUNT) < stat(other, IDX_PLAY_COUNT)
    THEN FALSE
    ELSE IF self.updated_ts > other.updated_ts
    THEN TRUE
    ELSE IF self.updated_ts < other.updated_ts
    THEN FALSE
    ELSE created_decides(self.created_ts, other.created_ts)

\* ----------------------------------------------------------- specification
YgInit ==
    /\ yg_args \in Records \X Records
    /\ yg_res = <<>>

\* x.is_younger(y), y.is_younger(x) and x.is_younger(x)
is_younger_call ==
    /\ yg_res = <<>>
    /\ yg_res' = <<[xy |-> is_younger(yg_args[1], yg_args[2]),
                    yx |-> is_younger(yg_args[2], yg_args[1]),
                    xx |-> is_younger(yg_args[1], yg_args[1])]>>
    /\ UNCHANGED yg_args

YgFrame == UNCHANGED <<vars, fpVars, diffVars, cdVars, dlgVars, stVars,
      convVars>>

YgNext == is_younger_call /\ YgFrame

YgStart == YgInit /\ UpdaterInit /\ FpIdle /\ DiffIdle /\ CdIdle /\ DlgIdle /\ StIdle
    /\ ConvIdle

YgSpec == YgStart /\ [][YgNext]_allVars

\* ------------------------------------------------------------------ claims
\* The priority chain of a record, most significant field first.
Chain(rec) ==
    <<stat(rec, IDX_LAST_PLAYED_STAMP), stat(rec, IDX_LAST_STARTED_STAMP),
      stat(rec, IDX_SKIP_COUNT), stat(rec, IDX_PLAY_COUNT),
      rec.updated_ts, rec.created_ts>>

\* The chain read as one number in base MaxStat + 1: comparing two chains
\* field by field, the first differing field deciding, is comparing these
\* numbers.
RECURSIVE ChainRank(_, _)
ChainRank(chain, n) ==
    IF n = 0 THEN 0
    ELSE ChainRank(chain, n - 1) * (MaxStat + 1) + chain[n]

Rank(rec) == ChainRank(Chain(rec), Len(Chain(rec)))

\* The first field of the chain in which x and y differ, 0 if none.
FirstDifference(x, y) ==
    LET d == {i \in DOMAIN Chain(x) : Chain(x)[i] # Chain(y)[i]}
    IN  IF d = {} THEN 0 ELSE CHOOSE i \in d : \A k \in d : i <= k

\* C15: is_younger is a strict order decided by the priority chain
\* last_played, last_started, skip_count, play_count, updated_at,
\* created_at, greater wins, first differing field decides: is_younger(x, x)
\* is false, is_younger(x, y) and is_younger(y, x) never both hold, neither
\* is younger exactly when all six chain fields are equal, and it is
\* transitive: x is younger than y exactly when the chain of x, read as a
\* number with last_played as the most significant digit, is greater than
\* that of y, and "greater" on numbers is transitive.
C15_IsYoungerStrictOrder ==
    yg_res # <<>> =>
        LET x == yg_args[1]
            y == yg_args[2]
            k == FirstDifference(x, y)
        IN  /\ ~yg_res[1].xx
            /\ ~(yg_res[1].xy /\ yg_res[1].yx)
            /\ (~yg_res[1].xy /\ ~yg_res[1].yx) <=> Chain(x) = Chain(y)
            /\ k # 0 => (yg_res[1].xy <=> Chain(x)[k] > Chain(y)[k])
            /\ yg_res[1].xy <=> Rank(x) > Rank(y)
            /\ yg_res[1].yx <=> Rank(y) > Rank(x)

\* x is younger by a later field of the chain although an even later field
\* says the opposite.
C15_Witness ==
    /\ yg_res # <<>>
    /\ yg_res[1].xy
    /\ ~yg_res[1].yx
    /\ FirstDifference(yg_args[1], yg_args[2]) = 3
    /\ yg_args[1].created_ts < yg_args[2].created_ts

\* ===========================================================================
\* Part 5: the fingerprint codec (src/fp_decompressor.py).
\*
\* A byte is a number in 0..255; the masks and shifts of the code are
\* written with \div and %.  A 32-bit value is a set of bit positions, as
\* in part 2.
\* ===========================================================================

\* ------------------------------------------------------------------ bounds
\* Longest raw fingerprint that is encoded.
MaxCodecLen == 3

\* --------------------------------------------------------------- constants
\* src/fp_decompressor.py:40
kMaxNormalValue == 7
\* src/fp_decompressor.py:41
kNormalBits == 3
\* src/fp_decompressor.py:42
kExceptionBits == 5
\* src/fp_decompressor.py:50  "assert len(fp_stream) >= 4", and offset = 4
HeaderSize == 4

\* fp_stream[n:]
drop(seq, n) == SubSeq(seq, n + 1, Len(seq))

\* Lines 75-85
get_unpacked_int3_array_size(packed_size) == (packed_size * 8) \div 3
get_packed_int3_array_size(unpacked_size) == (unpacked_size * 3 + 7) \div 8
get_unpacked_int5_array_size(packed_size) == (packed_size * 8) \div 5
get_packed_int5_array_size(unpacked_size) == (unpacked_size * 5 + 7) \div 8

\* Lines 104-119: the eight 3-bit symbols of three bytes.
int3_group(s0, s1, s2) ==
    <<s0 % 8,
      (s0 \div 8) % 8,
      (s0 \div 64) + (s1 % 2) * 4,
      (s1 \div 2) % 8,
      (s1 \div 16) % 8,
      (s1 \div 128) + (s2 % 4) * 2,
      (s2 \div 4) % 8,
      s2 \div 32>>

\* _unpack_int3_array, lines 87-148
RECURSIVE unpack_int3_array(_)
unpack_int3_array(src) ==
    IF Len(src) >= 3
    THEN int3_group(src[1], src[2], src[3]) \o unpack_int3_array(drop(src, 3))
    ELSE IF Len(src) = 2
    THEN SubSeq(int3_group(src[1], src[2], 0), 1, 5)
    ELSE IF Len(src) = 1
    THEN SubSeq(int3_group(src[1], 0, 0), 1, 2)
    ELSE <<>>

\* Lines 173-188: the eight 5-bit symbols of five bytes.
int5_group(s0, s1, s2, s3, s4) ==
    <<s0 % 32,
      (s0 \div 32) + (s1 % 4) * 8,
      (s1 \div 4) % 32,
      (s1 \div 128) + (s2 % 16) * 2,
      (s2 \div 16) + (s3 % 2) * 16,
      (s3 \div 2) % 32,
      (s3 \div 64) + (s4 % 8) * 4,
      s4 \div 8>>

\* _unpack_int5_array, lines 161-250: everything the loops write, in order.
RECURSIVE unpack_int5_written(_)
unpack_int5_written(src) ==
    IF Len(src) >= 5
    THEN int5_group(src[1], src[2], src[3], src[4], src[5])
             \o unpack_int5_written(drop(src, 5))
    ELSE IF Len(src) = 4
    THEN SubSeq(int5_group(src[1], src[2], src[3], src[4], 0), 1, 6)
    ELSE IF Len(src) = 3
    THEN SubSeq(int5_group(src[1], src[2], src[3], 0, 0), 1, 4)
    ELSE IF Len(src) = 2
    THEN SubSeq(int5_group(src[1], src[2], 0, 0, 0), 1, 3)
    ELSE IF Len(src) = 1
    THEN SubSeq(int5_group(src[1], 0, 0, 0, 0), 1, 1)
    ELSE <<>>

\* _unpack_int5_array, lines 150-252.  dest is sized for num_dest symbols
\* while the loops run over all of fp_stream: a write past the end of dest
\* raises IndexError.
unpack_int5_array(fp_stream, num_dest) ==
    LET num_bytes == get_unpacked_int5_array_size(
                         get_packed_int5_array_size(num_dest))
        written == unpack_int5_written(fp_stream)
    IN  IF Len(written) > num_bytes
        THEN [raised |-> TRUE, dest |-> <<>>]
        ELSE [raised |-> FALSE, dest |-> written]

one_shifted_next(n) == IF n + 1 < WordBits THEN {n + 1} ELSE {}
\* 1 << n, stored into an unsigned 32-bit word: nothing is left of a shift
\* by 32 or more.
one_shifted(n) == IF n < WordBits THEN {n} ELSE {}

\* _unpack_bits, lines 57-73: result, i, last_bit and value after the first
\* n symbols of bits.
RECURSIVE unpack_bits_loop(_, _, _)
unpack_bits_loop(bits, size, n) ==
    IF n = 0
    THEN [result |-> [k \in 1..size |-> BitPositions],
          i |-> 0, last_bit |-> 0, value |-> {}]
    ELSE LET st == unpack_bits_loop(bits, size, n - 1)
             bit == bits[n]
         IN  IF bit = 0
             THEN [st EXCEPT !.result[st.i + 1] = st.value,
                             !.last_bit = 0,
                             !.i = st.i + 1]
             ELSE [st EXCEPT !.last_bit = st.last_bit + bit,
                             !.value = xor(st.value,
                                           one_shifted(st.last_bit + bit - 1))]

unpack_bits(bits, size) == unpack_bits_loop(bits, size, Len(bits)).result

patch_exception_ignored(bit, exceptional) == bit
\* decompress, line 295: bits[i] += exceptional_bits[j]
patch_exception(bit, exceptional) == bit + exceptional

\* decompress, lines 290-296: every symbol 7 takes the next exception.
patch_exceptions(bits, exceptional_bits) ==
    [i \in DOMAIN bits |->
        IF bits[i] = kMaxNormalValue
        THEN patch_exception(
                 bits[i],
                 exceptional_bits[
                     Cardinality({k \in 1..i : bits[k] = kMaxNormalValue})])
        ELSE bits[i]]

Failure(kind) == [kind |-> kind, size |-> 0, algorithm |-> 0, data |-> <<>>]

\* decompress, lines 254-298, for a stream that has its header.
decompress_body(fp_stream) ==
    LET algorithm == fp_stream[1]
        size == fp_stream[2] * 65536 + fp_stream[3] * 256 + fp_stream[4]
        all_bits == unpack_int3_array(drop(fp_stream, HeaderSize))
        zeros == {i \in DOMAIN all_bits : all_bits[i] = 0}
        complete == size > 0 /\ Cardinality(zeros) >= size
        \* the index at which the loop of lines 261-269 breaks
        last == IF complete
                THEN CHOOSE i \in zeros :
                         Cardinality({z \in zeros : z <= i}) = size
                ELSE Len(all_bits)
        found_values == IF complete THEN size ELSE Cardinality(zeros)
        bits == SubSeq(all_bits, 1, last)
        num_exceptional_bits ==
            Cardinality({i \in DOMAIN bits : bits[i] = kMaxNormalValue})
        offset == HeaderSize + get_packed_int3_array_size(Len(bits))
        exceptional == unpack_int5_array(drop(fp_stream, offset),
                                         num_exceptional_bits)
    IN  IF found_values # size
        THEN Failure("DecompressFPError")
        ELSE IF Len(fp_stream)
                    < offset + get_packed_int5_array_size(num_exceptional_bits)
        THEN Failure("DecompressFPError")
        ELSE IF num_exceptional_bits # 0 /\ exceptional.raised
        THEN Failure("IndexError")
        ELSE [kind |-> "ok", size |-> size, algorithm |-> algorithm,
              data |-> unpack_bits(
                           IF num_exceptional_bits # 0
                           THEN patch_exceptions(bits, exceptional.dest)
                           ELSE bits,
                           size)]

\* decompress with _unpack_header, lines 49-55: what a call can end in.  A
\* stream shorter than the header fails the assert statement, or, when
\* Python runs with assertions disabled, the indexing of the next lines.
decompress(fp_stream) ==
    IF Len(fp_stream) < HeaderSize
    THEN {Failure("AssertionError"), Failure("IndexError")}
    ELSE {decompress_body(fp_stream)}

\* ------------------------------------------------------ reference encoder
\* The encoder is not part of the plugin (the streams come from fpcalc); it
\* is written from the format: header, 3-bit run lengths of the toggled
\* bits with a 0 closing each value, 5-bit exceptions for run lengths of 7
\* and more, both packed least significant bit first.

\* Algorithm id put in byte 0.
CodecAlgorithm == 1

\* The run lengths that toggle the bits of delta, lowest bit first, counted
\* from last_bit.
RECURSIVE run_lengths(_, _)
run_lengths(delta, last_bit) ==
    IF delta = {} THEN <<>>
    ELSE LET b == CHOOSE x \in delta : \A y \in delta : x <= y
         IN  <<b + 1 - last_bit>> \o run_lengths(delta \ {b}, b + 1)

\* The run lengths of the first n values of raw, a 0 closing each value.
RECURSIVE all_run_lengths(_, _)
all_run_lengths(raw, n) ==
    IF n = 0 THEN <<>>
    ELSE all_run_lengths(raw, n - 1)
             \o run_lengths(xor(raw[n], IF n = 1 THEN {} ELSE raw[n - 1]), 0)
             \o <<0>>

IsException(run) == run >= kMaxNormalValue

normal_symbols(runs) == [k \in DOMAIN runs |-> Min2(runs[k], kMaxNormalValue)]

exception_symbols(runs) ==
    LET exc == SelectSeq(runs, IsException)
    IN  [k \in DOMAIN exc |-> exc[k] - kMaxNormalValue]

\* 2^n
RECURSIVE pow2(_)
pow2(n) == IF n = 0 THEN 1 ELSE 2 * pow2(n - 1)

\* Bit g of the stream in which symbol k occupies the w bits from k * w.
stream_bit(symbols, w, g) ==
    IF g \div w < Len(symbols)
    THEN (symbols[(g \div w) + 1] \div pow2(g % w)) % 2
    ELSE 0

RECURSIVE byte_of(_, _, _, _)
byte_of(symbols, w, m, t) ==
    IF t = 8 THEN 0
    ELSE stream_bit(symbols, w, 8 * m + t) * pow2(t)
             + byte_of(symbols, w, m, t + 1)

\* Symbols of w bits packed into ceil(n * w / 8) bytes.
pack(symbols, w) ==
    [m \in 1..((Len(symbols) * w + 7) \div 8) |->
        byte_of(symbols, w, m - 1, 0)]

compress(raw) ==
    LET runs == all_run_lengths(raw, Len(raw))
    IN  <<CodecAlgorithm,
          Len(raw) \div 65536, (Len(raw) \div 256) % 256, Len(raw) % 256>>
        \o pack(normal_symbols(runs), kNormalBits)
        \o pack(exception_symbols(runs), kExceptionBits)

\* ------------------------------------------------------------------ inputs
\* Values whose differences give run lengths below 7, of exactly 7 (an
\* exception of 0), above 7 and of 32 (bit 31).
CodecWords == {{}, {0}, {6}, {0, 8}, {31}, {7, 15, 23, 31}}

CodecInputs == UNION {[1..n -> CodecWords] : n \in 0..MaxCodecLen}

\* Most bytes that follow a fingerprint in the stream given to decompress.
MaxTrail == 2

\* Bytes that follow it: all bits clear, all bits set.
TrailBytes == {0, 255}

Trails == UNION {[1..n -> TrailBytes] : n \in 1..MaxTrail}

\* ----------------------------------------------------------- specification
\* A raw fingerprint and the stream given to decompress: its encoding, the
\* encoding cut short, or the encoding followed by more bytes.
CdInit ==
    /\ cd_raw \in CodecInputs
    /\ \/ \E n \in 0..Len(compress(cd_raw)) :
             cd_stream = SubSeq(compress(cd_raw), 1, n)
       \/ \E extra \in Trails : cd_stream = compress(cd_raw) \o extra
    /\ cd_res = <<>>

decompress_call ==
    /\ cd_res = <<>>
    /\ \E r \in decompress(cd_stream) : cd_res' = <<r>>
    /\ UNCHANGED <<cd_raw, cd_stream>>

CdFrame == UNCHANGED <<vars, fpVars, diffVars, ygVars, dlgVars, stVars,
      convVars>>

CdNext == decompress_call /\ CdFrame

CdStart == CdInit /\ UpdaterInit /\ FpIdle /\ DiffIdle /\ YgIdle /\ DlgIdle /\ StIdle
    /\ ConvIdle

CdSpec == CdStart /\ [][CdNext]_allVars

\* ------------------------------------------------------------------ claims
\* The stream is shorter than the fingerprint announced in its header needs.
Truncated == Len(cd_stream) < Len(compress(cd_raw))

\* C19: for every byte stream shorter than its header's expected_count
\* requires (too few 3-bit symbols, too few bytes for the exceptions, or
\* fewer than the 4 header bytes) decompress fails with DecompressFPError;
\* it never fails with another kind of error and never returns a result.
C19_TruncatedFailsCleanly ==
    (cd_res # <<>> /\ Truncated) => cd_res[1].kind = "DecompressFPError"

\* C20: for every raw fingerprint x, decompress(encode(x)) returns exactly
\* x, element by element, with size equal to len(x).
C20_RoundTrip ==
    (cd_res # <<>> /\ cd_stream = compress(cd_raw)) =>
        /\ cd_res[1].kind = "ok"
        /\ cd_res[1].data = cd_raw
        /\ cd_res[1].size = Len(cd_raw)
        /\ Len(cd_res[1].data) = Len(cd_raw)

\* A fingerprint of three values with bit 31 set and more than eight
\* exceptions, so that a full group of 5-bit symbols is unpacked, has come
\* back unchanged.
C20_Witness ==
    /\ cd_res # <<>>
    /\ cd_stream = compress(cd_raw)
    /\ Len(cd_raw) = 3
    /\ \E i \in DOMAIN cd_raw : 31 \in cd_raw[i]
    /\ Len(exception_symbols(all_run_lengths(cd_raw, Len(cd_raw)))) > 8
    /\ cd_res[1].kind = "ok"
    /\ cd_res[1].data = cd_raw

\* ------------------------------------------------------ reference decoder
\* The decoder of the format, read bit by bit.

\* Bit g of a byte sequence, the least significant bit of a byte first.
ref_bit(bytes, g) ==
    IF g \div 8 < Len(bytes)
    THEN (bytes[(g \div 8) + 1] \div pow2(g % 8)) % 2
    ELSE 0

\* The bits t..w-1 of symbol k of w bits (k from 0), as a number.
RECURSIVE ref_symbol_from(_, _, _, _)
ref_symbol_from(bytes, w, k, t) ==
    IF t = w THEN 0
    ELSE ref_bit(bytes, k * w + t) * pow2(t)
             + ref_symbol_from(bytes, w, k, t + 1)

ref_symbol(bytes, w, k) == ref_symbol_from(bytes, w, k, 0)

\* expected_count of the header.
ref_count(stream) == stream[2] * 65536 + stream[3] * 256 + stream[4]

\* The number of 3-bit symbols consumed: up to the expected_count-th zero.
ref_consumed(stream) ==
    LET body == drop(stream, HeaderSize)
        avail == (Len(body) * 8) \div kNormalBits
        zeros(n) == Cardinality({k \in 1..n :
                        ref_symbol(body, kNormalBits, k - 1) = 0})
    IN  IF ref_count(stream) = 0 THEN 0
        ELSE CHOOSE n \in 1..avail :
                /\ zeros(n) = ref_count(stream)
                /\ ref_symbol(body, kNormalBits, n - 1) = 0

\* The consumed symbols, the i-th symbol 7 replaced by 7 plus the i-th
\* 5-bit exception value.
ref_symbols(stream) ==
    LET body == drop(stream, HeaderSize)
        n == ref_consumed(stream)
        exc == drop(body, (n * kNormalBits + 7) \div 8)
        sym(k) == ref_symbol(body, kNormalBits, k - 1)
    IN  [k \in 1..n |->
            IF sym(k) = kMaxNormalValue
            THEN kMaxNormalValue
                   + ref_symbol(exc, kExceptionBits,
                         Cardinality({m \in 1..k :
                             sym(m) = kMaxNormalValue}) - 1)
            ELSE sym(k)]

\* Bit b of a value toggled.
ref_toggle(acc, b) == IF b \in acc THEN acc \ {b} ELSE acc \cup {b}

\* The values emitted from symbol k on: a zero emits the accumulator and
\* resets last_bit, another symbol advances last_bit and toggles the bit
\* before it.
RECURSIVE ref_emit(_, _, _, _)
ref_emit(symbols, k, acc, last_bit) ==
    IF k > Len(symbols) THEN <<>>
    ELSE IF symbols[k] = 0
    THEN <<acc>> \o ref_emit(symbols, k + 1, acc, 0)
    ELSE ref_emit(symbols, k + 1,
                  ref_toggle(acc, last_bit + symbols[k] - 1),
                  last_bit + symbols[k])

ref_decode(stream) == ref_emit(ref_symbols(stream), 1, {}, 0)

\* C36: for every well-formed stream decompress returns the output of the
\* reference decoder (symbols consumed up to the expected_count-th zero,
\* the i-th symbol 7 replaced by 7 plus the i-th exception, a zero emitting
\* the accumulator and resetting only last_bit, another symbol s advancing
\* last_bit by s and toggling bit last_bit - 1), with exactly
\* expected_count values.
C36_DecoderMatchesReference ==
    (cd_res # <<>> /\ cd_stream = compress(cd_raw)) =>
        /\ cd_res[1].kind = "ok"
        /\ cd_res[1].data = ref_decode(cd_stream)
        /\ Len(cd_res[1].data) = ref_count(cd_stream)
        /\ cd_res[1].size = ref_count(cd_stream)

\* A stream of two values has been decoded, each needing an exception
\* above 0; the second differs from the first in bit 8 only, so that it
\* comes out right only with the accumulator carried over.
C36_Witness ==
    /\ cd_res # <<>>
    /\ cd_stream = compress(cd_raw)
    /\ cd_raw = <<{0, 8}, {0}>>
    /\ cd_res[1].kind = "ok"
    /\ cd_res[1].data = ref_decode(cd_stream)
    /\ cd_res[1].data = cd_raw
    /\ ref_symbols(cd_stream) = <<1, 8, 0, 9, 0>>

\* The stream is a whole encoding followed by more bytes.
Trailing ==
    /\ Len(cd_stream) > Len(compress(cd_raw))
    /\ SubSeq(cd_stream, 1, Len(compress(cd_raw))) = compress(cd_raw)

\* C37: for a well-formed fingerprint followed by extra bytes, decompress
\* returns what it returns for the stream without them, or fails with
\* DecompressFPError; unpacking the exceptions never writes past the
\* symbols needed, so it never fails with an index error.
C37_TrailingBytesIgnored ==
    (cd_res # <<>> /\ Trailing) =>
        \/ cd_res[1] = decompress_body(compress(cd_raw))
        \/ cd_res[1].kind = "DecompressFPError"


\* ===========================================================================
\* Part 6: the dialog worker (src/dlg_base.py, src/async_helpers.py).
\*
\* DlgBase._task_worker runs on a background thread started by the Start
\* button; the main thread runs the button handlers and the callbacks the
\* worker queues with GLib.idle_add.  One pass of the while loop is one step:
\* the only thing the worker shares with the main thread is the Cancellable,
\* which the loop reads once per pass (line 309) and not at all on the
\* locked/busy path, where the pass ends in time.sleep(1).  Songs are numbered 1..n in queue order.
\* ===========================================================================

\* ------------------------------------------------------------------ bounds
\* Songs _get_songs_to_process returns for one run.
MaxDlgSongs == 3
\* Largest _batch_size a dialog is constructed with.
MaxDlgBatch == 2

\* TaskResult.__init__
NewTaskResult ==
    [total_processed |-> 0, total_succeeded |-> 0, total_failed |-> 0,
     total_skipped |-> 0, error |-> "None"]

\* TaskResult.add
TaskResult_add(result, progress) ==
    [result EXCEPT
       !.total_succeeded = @ + Len(progress.succeeded),
       !.total_failed    = @ + Len(progress.failed),
       !.total_skipped   = @ + progress.skipped,
       !.total_processed = @ + Len(progress.succeeded) + Len(progress.failed)
                             + progress.skipped]

\* Nothing handed to _update_task_progress yet.
NoSent == [succeeded |-> <<>>, failed |-> <<>>, skipped |-> 0,
           error |-> "None"]

\* _async_update_progress(progress): the main thread receives the progress
\* object; sent accumulates what it has received.
async_update_progress(sent, progress) ==
    [succeeded |-> sent.succeeded \o progress.succeeded,
     failed    |-> sent.failed \o progress.failed,
     skipped   |-> sent.skipped + progress.skipped,
     error     |-> progress.error]

\* What dlg_run holds when call_async is handed a worker: the function has
\* not run, _on_task_finished has not been called.
NewRun == [ran |-> FALSE, finished |-> 0]

\* DlgBase.__init__ with a batch size, the dialog not started.
DlgInit ==
    /\ dlg_pc = "idle"
    /\ dlg_cancelled = FALSE
    /\ dlg_is_running = FALSE
    /\ dlg_batch_size \in 1..MaxDlgBatch
    /\ dlg_songs = <<>>
    /\ dlg_count = 0
    /\ dlg_result = NewTaskResult
    /\ dlg_progress = NewTaskProgress
    /\ dlg_count_batch = 0
    /\ dlg_forced = FALSE
    /\ dlg_sent = NoSent
    /\ dlg_calls = {}
    /\ dlg_cancel_queue = <<>>
    /\ dlg_run = NewRun

\* ------------------------------------------------------------ main thread
\* _start_btn_clicked_cb: reset the Cancellable and hand the worker to
\* call_async.  The button is sensitive only when no run is in progress; the
\* user clicks it once the host has completed the previous call.
start_btn_clicked ==
    /\ dlg_pc = "idle"
    /\ ~dlg_is_running
    /\ ~dlg_forced
    /\ dlg_cancelled' = FALSE
    /\ dlg_is_running' = TRUE
    /\ dlg_pc' = "scheduled"
    /\ dlg_sent' = NoSent
    /\ dlg_calls' = {}
    /\ dlg_cancel_queue' = <<>>
    /\ dlg_run' = NewRun
    /\ UNCHANGED <<dlg_batch_size, dlg_songs, dlg_count, dlg_result,
                   dlg_progress, dlg_count_batch, dlg_forced>>

\* _stop: cancel a running task.
dlg_stop ==
    /\ dlg_cancelled' = (dlg_cancelled \/ dlg_is_running)
    /\ UNCHANGED <<dlg_pc, dlg_is_running, dlg_batch_size, dlg_songs,
                   dlg_count, dlg_result, dlg_progress, dlg_count_batch,
                   dlg_forced, dlg_sent, dlg_calls, dlg_cancel_queue,
                   dlg_run>>

\* _on_task_finished(result), queued by the worker itself (line 336).
dlg_on_task_finished_forced ==
    /\ dlg_forced
    /\ dlg_forced' = FALSE
    /\ dlg_is_running' = FALSE
    /\ dlg_run' = [dlg_run EXCEPT !.finished = @ + 1]
    /\ UNCHANGED <<dlg_pc, dlg_cancelled, dlg_batch_size, dlg_songs,
                   dlg_count, dlg_result, dlg_progress, dlg_count_batch,
                   dlg_sent, dlg_calls, dlg_cancel_queue>>

\* The host's completion step of call_async: _on_task_finished(result) is
\* called only when the Cancellable is not cancelled.
dlg_callback ==
    /\ dlg_pc = "returned"
    /\ dlg_pc' = "idle"
    /\ dlg_is_running' = (dlg_is_running /\ dlg_cancelled)
    /\ dlg_run' = [dlg_run EXCEPT
                     !.finished = IF dlg_cancelled THEN @ ELSE @ + 1]
    /\ UNCHANGED <<dlg_cancelled, dlg_batch_size, dlg_songs, dlg_count,
                   dlg_result, dlg_progress, dlg_count_batch, dlg_forced,
                   dlg_sent, dlg_calls, dlg_cancel_queue>>

\* ------------------------------------------------- background thread
\* while len(songs): the loop goes on, or the code after it runs.
loop_pc(songs) == IF Len(songs) > 0 THEN "loop" ELSE "finish"

\* _task_worker, lines 259-266, with n songs to process; the host does not
\* run the function when the Cancellable is already cancelled.
dlg_worker_start(n) ==
    /\ dlg_pc = "scheduled"
    /\ IF dlg_cancelled
       THEN /\ dlg_pc' = "idle"
            /\ UNCHANGED <<dlg_songs, dlg_count, dlg_result, dlg_progress,
                           dlg_count_batch>>
       ELSE /\ dlg_songs' = [i \in 1..n |-> i]
            /\ dlg_count' = n
            /\ dlg_result' = NewTaskResult
            /\ dlg_progress' = NewTaskProgress
            /\ dlg_count_batch' = 0
            /\ dlg_pc' = loop_pc(dlg_songs')
    /\ dlg_run' = [dlg_run EXCEPT !.ran = ~dlg_cancelled]
    /\ UNCHANGED <<dlg_cancelled, dlg_is_running, dlg_batch_size, dlg_forced,
                   dlg_sent, dlg_calls, dlg_cancel_queue>>

\* lines 287-305: the processor's answer put into progress.
dlg_classify(progress, s, outcome) ==
    [progress EXCEPT
       !.failed    = IF outcome = "error"
                     THEN Append(@, <<s, "FINGERPRINT_ERROR">>)
                     ELSE IF outcome = "db_error"
                     THEN Append(@, <<s, "DB_ERROR">>)
                     ELSE IF outcome = "exception"
                     THEN Append(@, <<s, "ERROR">>)
                     ELSE @,
       !.succeeded = IF outcome = "succeeded" THEN Append(@, s) ELSE @,
       !.skipped   = IF outcome = "skipped" THEN @ + 1 ELSE @]

\* lines 312-313: the songs left in the queue, each failed as cancelled.
cancelled_songs_none(songs) == <<>>

cancelled_songs(songs) ==
    [i \in 1..Len(songs) |-> <<songs[i], "CANCELLED">>]

\* lines 268-323: one pass of the loop, the processor call ending with
\* `outcome`.
dlg_iteration(outcome) ==
    /\ dlg_pc = "loop"
    /\ Len(dlg_songs) > 0
    /\ LET s    == Head(dlg_songs)
           rest == Tail(dlg_songs)
           \* lines 289, 296: an error is notified about at once
           cb0  == IF outcome \in {"db_error", "exception"}
                   THEN dlg_batch_size ELSE dlg_count_batch
           cb1  == cb0 + 1
           p1   == dlg_classify(dlg_progress, s, outcome)
       IN  /\ dlg_calls' = dlg_calls \cup {s}
           /\ IF is_lock_error(outcome)
              THEN \* lines 279-283
                   /\ dlg_songs' = appendleft(s, rest)
                   /\ dlg_sent' = async_update_progress(dlg_sent,
                          [dlg_progress EXCEPT !.error = "DB_LOCKED"])
                   /\ dlg_progress' = NewTaskProgress
                   /\ dlg_count_batch' = 0
                   /\ dlg_pc' = "sleep"
                   /\ UNCHANGED <<dlg_result, dlg_cancel_queue>>
              ELSE /\ dlg_songs' = rest
                   /\ IF dlg_cancelled
                      THEN \* lines 309-315
                           /\ dlg_result' =
                                  [dlg_result EXCEPT !.error = "CANCELLED"]
                           /\ dlg_progress' =
                                  [p1 EXCEPT !.error = "CANCELLED",
                                      !.failed = @ \o cancelled_songs(rest)]
                           /\ dlg_count_batch' = cb1 + Len(rest)
                           /\ dlg_cancel_queue' = rest
                           /\ dlg_pc' = "finish"
                           /\ UNCHANGED dlg_sent
                      ELSE IF cb1 >= dlg_batch_size
                      THEN \* lines 317-323
                           /\ dlg_count_batch' = 0
                           /\ dlg_result' = TaskResult_add(dlg_result, p1)
                           /\ dlg_sent' = async_update_progress(dlg_sent,
                                  [p1 EXCEPT !.total_processed =
                                       dlg_result'.total_processed])
                           /\ dlg_progress' = NewTaskProgress
                           /\ dlg_pc' = loop_pc(rest)
                           /\ UNCHANGED dlg_cancel_queue
                      ELSE /\ dlg_progress' = p1
                           /\ dlg_count_batch' = cb1
                           /\ dlg_pc' = loop_pc(rest)
                           /\ UNCHANGED <<dlg_result, dlg_sent,
                                          dlg_cancel_queue>>
    /\ UNCHANGED <<dlg_cancelled, dlg_is_running, dlg_batch_size, dlg_count,
                   dlg_forced, dlg_run>>

\* lines 284-285: time.sleep(1), then continue with the next pass.
dlg_retry_after_sleep ==
    /\ dlg_pc = "sleep"
    /\ dlg_pc' = loop_pc(dlg_songs)
    /\ UNCHANGED <<dlg_cancelled, dlg_is_running, dlg_batch_size, dlg_songs,
                   dlg_count, dlg_result, dlg_progress, dlg_count_batch,
                   dlg_forced, dlg_sent, dlg_calls, dlg_cancel_queue,
                   dlg_run>>

\* lines 325-338: the last partial batch, then the forced completion call
\* when cancelled, then return.
dlg_finish ==
    /\ dlg_pc = "finish"
    /\ IF dlg_count_batch # 0
       THEN /\ dlg_result' = TaskResult_add(dlg_result, dlg_progress)
            /\ dlg_sent' = async_update_progress(dlg_sent, dlg_progress)
            /\ dlg_progress' = NewTaskProgress
            /\ dlg_count_batch' = 0
       ELSE UNCHANGED <<dlg_result, dlg_sent, dlg_progress, dlg_count_batch>>
    /\ dlg_forced' = (dlg_forced \/ dlg_cancelled)
    /\ dlg_pc' = "returned"
    /\ UNCHANGED <<dlg_cancelled, dlg_is_running, dlg_batch_size, dlg_songs,
                   dlg_count, dlg_calls, dlg_cancel_queue, dlg_run>>

\* ---------------------------------------------------------- specification
DlgFrame == UNCHANGED <<vars, fpVars, diffVars, ygVars, cdVars, stVars,
      convVars>>

DlgNext ==
    \/ start_btn_clicked /\ DlgFrame
    \/ dlg_stop /\ DlgFrame
    \/ dlg_on_task_finished_forced /\ DlgFrame
    \/ dlg_callback /\ DlgFrame
    \/ \E n \in 0..MaxDlgSongs : dlg_worker_start(n) /\ DlgFrame
    \/ \E outcome \in Outcomes : dlg_iteration(outcome) /\ DlgFrame
    \/ dlg_retry_after_sleep /\ DlgFrame
    \/ dlg_finish /\ DlgFrame

\* A dialog constructed, the other parts untouched.
DlgStart == DlgInit /\ UpdaterInit /\ FpIdle /\ DiffIdle /\ YgIdle /\ CdIdle /\ StIdle
    /\ ConvIdle

\* The worker thread keeps running once started and GLib runs what is queued
\* on the main loop; what the processor answers is up to the store.
DlgSpec ==
    /\ DlgStart
    /\ [][DlgNext]_allVars
    /\ WF_allVars(\E n \in 0..MaxDlgSongs : dlg_worker_start(n) /\ DlgFrame)
    /\ WF_allVars(\E outcome \in Outcomes : dlg_iteration(outcome) /\ DlgFrame)
    /\ WF_allVars(dlg_retry_after_sleep /\ DlgFrame)
    /\ WF_allVars(dlg_finish /\ DlgFrame)
    /\ WF_allVars(dlg_callback /\ DlgFrame)
    /\ WF_allVars(dlg_on_task_finished_forced /\ DlgFrame)

\* ----------------------------------------------------------------- claims
\* The worker has returned its TaskResult.
DlgReturned == dlg_pc = "returned"

\* C27: when _task_worker ends, total_succeeded + total_failed +
\* total_skipped of the returned TaskResult is the number of songs initially
\* queued, and total_processed is that sum.
C27_TotalsAccountForEverySong ==
    DlgReturned =>
        /\ dlg_result.total_succeeded + dlg_result.total_failed
              + dlg_result.total_skipped = dlg_count
        /\ dlg_result.total_processed = dlg_count

\* C29: once cancellation is requested the running worker eventually
\* returns.
C29_CancelledWorkerTerminates ==
    (dlg_cancelled /\ dlg_pc \in {"loop", "sleep", "finish"}) ~> DlgReturned

\* C30: when the worker has observed cancellation after an item, every song
\* then still queued has been handed over exactly once as failed with
\* CANCELLED, the processor was invoked for none of them, and the result's
\* error is CANCELLED.
C30_CancelFailsQueuedSongs ==
    (DlgReturned /\ dlg_result.error = "CANCELLED") =>
        /\ \A i \in 1..Len(dlg_cancel_queue) :
              /\ Cardinality({k \in 1..Len(dlg_sent.failed) :
                     dlg_sent.failed[k][1] = dlg_cancel_queue[i]}) = 1
              /\ <<dlg_cancel_queue[i], "CANCELLED">> \in Range(dlg_sent.failed)
              /\ dlg_cancel_queue[i] \notin Range(dlg_sent.succeeded)
              /\ dlg_cancel_queue[i] \notin dlg_calls
        /\ dlg_sent.error = "CANCELLED"
        /\ dlg_result.total_failed >= Len(dlg_cancel_queue)

\* Cancellation was observed after the first song's processor call, with two
\* songs still queued.
C30_Witness ==
    /\ DlgReturned
    /\ dlg_result.error = "CANCELLED"
    /\ Len(dlg_cancel_queue) = 2
    /\ dlg_calls = {1}

\* C31: once the host has completed the call of a worker that ran, and no
\* call queued by the worker is pending, _on_task_finished has been invoked
\* exactly once for the run and the dialog has left the running state; and
\* at no time has it been invoked twice.
C31_FinishedExactlyOnce ==
    /\ dlg_run.finished <= 1
    /\ (dlg_pc = "idle" /\ ~dlg_forced /\ dlg_run.ran)
          => (dlg_run.finished = 1 /\ ~dlg_is_running)


\* ===========================================================================
\* Part 7: the stores and what writes them (src/prdb.py, src/_plugin_impl.py,
\* src/dlg_gen_fps.py, src/dlg_sync_with_ext.py).
\*
\* A store is the songs table of one PRDB file: a sequence of rows in
\* insertion order.  The local store is written by the plugin's event
\* handlers, by the generate-fingerprints dialog and by the synchronisation
\* dialog; the external store by the synchronisation dialog.  Fingerprints
\* are the objects of DiffFps, referred to by their index.
\* ===========================================================================

\* ------------------------------------------------------------------ bounds
\* Rows the two stores hold together; inserts stop there.
MaxRows == 2
\* Largest value of the clock.
MaxNow == 2
\* Songs of the host library.
MaxSongs == 2

\* --------------------------------------------------------------- constants
\* src/attrs.py:23
RAITING_SCALE == 1000
\* src/prdb.py:108: the rating of a record created without one
UnsetRating == 0
\* src/_plugin_impl.py:59 and 119: distance given to get_songs_by_hash
EventHashDistance == 1
\* src/dlg_gen_fps.py:110
GenFpsHashDistance == 3

\* The host keeps a rating as a float in steps of a quarter; a song's rating
\* is held here as its number of quarters.
SongRatings == {0, 1}

\* helpers.rating_to_int: the fixed-point integer of scale RAITING_SCALE.
rating_to_int(q) == (q * RAITING_SCALE) \div 4

\* helpers.rating_to_float
rating_to_float(rating) == (rating * 4) \div RAITING_SCALE

Basenames == {"a", "b"}

\* The file name of song s of the library.
SongBasename(s) == IF s = 1 THEN "a" ELSE "b"

\* The fingerprints of the audio files: the one-word vectors 0 and 3, which
\* compare equal and whose hashes are 2 bits apart.
StoreFps == 1..2

Stores == {"loc", "ext"}

\* The schema keeps the fingerprint hash and blob of a store unique: an
\* INSERT of a fingerprint the store holds already fails.
fp_is_new(rows, fp) == \A i \in DOMAIN rows : rows[i].fp # fp

\* Room for one more row.
has_room == Len(db.loc) + Len(db.ext) < MaxRows

\* ----------------------------------------------------------------- prdb.py
\* RETURNING id: the rowid of the inserted row.
new_id(rows) == Len(rows) + 1

has_row(rows, id) == \E i \in DOMAIN rows : rows[i].fp_id = id

row_of(rows, id) == rows[CHOOSE i \in DOMAIN rows : rows[i].fp_id = id]

\* UPDATE songs SET ... WHERE id = ?: the row with that id becomes `new`.
set_row_reinserted(rows, id, new) ==
    SelectSeq(rows, LAMBDA r : r.fp_id # id)
        \o <<[new EXCEPT !.fp_id = new_id(rows)]>>

set_row(rows, id, new) ==
    [i \in DOMAIN rows |-> IF rows[i].fp_id = id THEN new ELSE rows[i]]

\* add_empty_song: the rating column keeps its default, updated_at is NULL.
add_empty_song(rows, basename, fp) ==
    Append(rows, [fp_id |-> new_id(rows), basename |-> basename,
                  rating |-> UnsetRating, fp |-> fp,
                  updated_at |-> None])

\* add_song: updated_at = int(time.time()).
add_song(rows, basename, rating, fp) ==
    Append(rows, [fp_id |-> new_id(rows), basename |-> basename,
                  rating |-> rating, fp |-> fp,
                  updated_at |-> now])

\* add_record: the columns of rec as they are, under a new id.
add_record(rows, rec) ==
    Append(rows, [fp_id |-> new_id(rows), basename |-> rec.basename,
                  rating |-> rec.rating, fp |-> rec.fp,
                  updated_at |-> rec.updated_at])

\* force_song_update, lines 198 and 209: "updated_at = ?" with
\* song.updated_at.
forced_updated_at_kept(row, song) == row.updated_at

forced_updated_at(row, song) == song.updated_at

\* force_song_update
force_song_update(rows, song) ==
    IF has_row(rows, song.fp_id)
    THEN LET row == row_of(rows, song.fp_id)
         IN  set_row(rows, song.fp_id,
                 [row EXCEPT !.basename = song.basename,
                             !.rating = song.rating,
                             !.updated_at = forced_updated_at(row, song)])
    ELSE rows

\* update_song: the rows afterwards, and the value returned (rowcount > 0).
update_song(rows, id, basename, rating) ==
    IF has_row(rows, id)
    THEN set_row(rows, id, [row_of(rows, id) EXCEPT !.basename = basename,
                                                    !.rating = rating,
                                                    !.updated_at = now])
    ELSE rows

update_song_ret(rows, id) == has_row(rows, id)

\* update_song_if_different, lines 257-260: the WHERE clause beyond the id.
is_different_always(row, basename, rating) == TRUE

is_different(row, basename, rating) ==
    \/ row.basename # basename
    \/ row.updated_at = None
    \/ (row.updated_at # None /\ row.rating # rating)

\* update_song_if_different: the value returned (rowcount > 0).
update_song_if_different_ret(rows, id, basename, rating) ==
    has_row(rows, id) /\ is_different(row_of(rows, id), basename, rating)

\* update_song_if_different: the rows afterwards.
update_song_if_different(rows, id, basename, rating) ==
    IF update_song_if_different_ret(rows, id, basename, rating)
    THEN set_row(rows, id, [row_of(rows, id) EXCEPT !.basename = basename,
                                                    !.rating = rating,
                                                    !.updated_at = now])
    ELSE rows

\* get_songs_by_hash: "WHERE phhammdist(fp_hash, ?) <= ?", the fp_hash column
\* holding fp.hash() of the row's fingerprint.
get_songs_by_hash(rows, hash, distance) ==
    SelectSeq(rows,
        LAMBDA r : hamming_distance(DiffFps[r.fp]._hash, hash) <= distance)

\* "for r in db_records: if r.fp == fp: db_record = r; break": the index of
\* the record found, 0 for None.
find_record(db_records, fp) ==
    LET hits == {i \in DOMAIN db_records : DiffFpEq[db_records[i].fp][fp]}
    IN  IF hits = {} THEN 0
        ELSE CHOOSE i \in hits : \A k \in hits : i <= k

\* ------------------------------------------------------- _plugin_impl.py
\* A song of the host library: the fingerprint of its audio, its basename,
\* its rating in quarters and its fingerprint id; None for a tag that is not
\* in the song.
NewSong(fp, basename) ==
    [fp |-> fp, basename |-> basename, rating |-> None, fp_id |-> None]

\* helpers.are_not_equal, applied to two ratings of the host.
are_not_equal(a, b) == a # b

\* st_call, ev and st_match describe the handler call of the last step; no
\* other operation leaves anything in them.
NoEvent == st_call' = <<>> /\ ev' = <<>> /\ st_match' = <<>>

\* What a handler works on while it runs: the rows of the local store, the
\* library, the last update_song_if_different call and the last match.
HandlerState ==
    [rows |-> db.loc, lib |-> library, ucall |-> st_call, match |-> <<>>]

taken_rating_always(song, rec) == rating_to_float(rec.rating)
\* lines 84-85 and 151-152: "if db_record.updated_at is not None:
\* song[attrs.RATING] = rating_to_float(db_record.rating)"
taken_rating(song, rec) ==
    IF rec.updated_at # None THEN rating_to_float(rec.rating)
    ELSE song.rating

\* lines 83-85 and 149-152: the song takes the id of the record found, and
\* its rating when the record has one. match keeps the song as it was and
\* as it is now, and whether the rows and the other songs are as before.
take_record(st, s, rec) ==
    LET res == [st EXCEPT !.lib[s].fp_id = rec.fp_id,
                          !.lib[s].rating = taken_rating(st.lib[s], rec)]
    IN  [res EXCEPT !.match =
            [rec |-> rec, before |-> st.lib[s], after |-> res.lib[s],
             rows_kept |-> res.rows = st.rows,
             others_kept |-> \A t \in DOMAIN st.lib :
                                t # s => res.lib[t] = st.lib[t]]]

\* _add_processor on song s; calc_ok: ctx.calc returned a fingerprint.
add_processor(st, s, calc_ok) ==
    LET song == st.lib[s]
        db_records == get_songs_by_hash(st.rows, DiffFps[song.fp]._hash,
                                        EventHashDistance)
        k == find_record(db_records, song.fp)
    IN  IF ~calc_ok THEN st
        ELSE IF k = 0
        THEN [st EXCEPT
                !.rows = add_empty_song(st.rows, song.basename, song.fp),
                !.lib[s].fp_id = new_id(st.rows)]
        ELSE take_record(st, s, db_records[k])

\* _on_song_updated: the other songs with the same fingerprint id take the
\* rating of song s.
on_song_updated(st, s) ==
    [st EXCEPT !.lib =
        [t \in DOMAIN st.lib |->
            IF /\ t # s
               /\ st.lib[t].fp_id = st.lib[s].fp_id
               /\ are_not_equal(st.lib[t].rating, st.lib[s].rating)
            THEN [st.lib[t] EXCEPT !.rating = st.lib[s].rating]
            ELSE st.lib[t]]]

\* _change_processor on song s, and _on_song_updated when it returns True.
change_processor(st, s, calc_ok) ==
    LET song == st.lib[s]
        db_records == get_songs_by_hash(st.rows, DiffFps[song.fp]._hash,
                                        EventHashDistance)
        k == find_record(db_records, song.fp)
    IN  IF song.fp_id = None
        THEN IF ~calc_ok THEN st
             ELSE IF k = 0
             THEN [st EXCEPT
                     !.rows = IF song.rating # None
                              THEN add_song(st.rows, song.basename,
                                            rating_to_int(song.rating),
                                            song.fp)
                              ELSE add_empty_song(st.rows, song.basename,
                                                  song.fp),
                     !.lib[s].fp_id = new_id(st.rows)]
             ELSE take_record(st, s, db_records[k])
        ELSE IF song.rating # None
        THEN LET rating == rating_to_int(song.rating)
                 ret == update_song_if_different_ret(st.rows, song.fp_id,
                                                     song.basename, rating)
                 rows1 == update_song_if_different(st.rows, song.fp_id,
                                                   song.basename, rating)
                 st1 == [st EXCEPT
                           !.rows = rows1,
                           !.ucall = [basename |-> song.basename,
                                      rating |-> rating,
                                      before |-> row_of(st.rows, song.fp_id),
                                      after |-> row_of(rows1, song.fp_id),
                                      ret |-> ret]]
             IN  IF ret THEN on_song_updated(st1, s) ELSE st1
        ELSE st

\* "for s in songs": the first n songs of the batch handled; the ctx.calc
\* call of the song at position bad fails.
RECURSIVE on_added_loop(_, _, _, _)
on_added_loop(st, songs, n, bad) ==
    IF n = 0 THEN st
    ELSE add_processor(on_added_loop(st, songs, n - 1, bad), songs[n],
                       n # bad)

RECURSIVE on_changed_loop(_, _, _, _)
on_changed_loop(st, songs, n, bad) ==
    IF n = 0 THEN st
    ELSE change_processor(on_changed_loop(st, songs, n - 1, bad), songs[n],
                          n # bad)

\* The batches the host hands to a handler: songs of the library, each once.
Batches ==
    {b \in UNION {[1..n -> 1..MaxSongs] : n \in 1..MaxSongs} :
        \A i, j \in DOMAIN b : i # j => b[i] # b[j]}

\* How many songs of a batch a handler gets through: none once the plugin is
\* stopped (lines 102, 190); the songs before position lock_at when the store
\* raises locked/busy there, since the handler has no except clause and the
\* exception leaves it; all of them otherwise (lock_at = 0).
songs_handled(songs, lock_at) ==
    IF st_cancelled THEN 0
    ELSE IF lock_at = 0 THEN Len(songs) ELSE lock_at - 1

\* What ev records of a handler call: the songs of the batch that it left
\* unhandled though the plugin was not stopped.
EventRecord(songs, lock_at) ==
    IF st_cancelled THEN <<>>
    ELSE SubSeq(songs, songs_handled(songs, lock_at) + 1, Len(songs))

\* PluginImpl.on_added(songs)
on_added(songs, lock_at, bad) ==
    LET st == on_added_loop(HandlerState, songs,
                            songs_handled(songs, lock_at), bad)
    IN  /\ Len(st.rows) + Len(db.ext) <= MaxRows
        /\ db' = [db EXCEPT !.loc = st.rows]
        /\ library' = st.lib
        /\ ev' = EventRecord(songs, lock_at)
        /\ st_call' = <<>>
        /\ st_match' = st.match
        /\ UNCHANGED <<now, st_cancelled>>

\* PluginImpl.on_changed(songs)
on_changed(songs, lock_at, bad) ==
    LET st == on_changed_loop([HandlerState EXCEPT !.ucall = <<>>], songs,
                              songs_handled(songs, lock_at), bad)
    IN  /\ Len(st.rows) + Len(db.ext) <= MaxRows
        /\ db' = [db EXCEPT !.loc = st.rows]
        /\ library' = st.lib
        /\ st_call' = st.ucall
        /\ ev' = EventRecord(songs, lock_at)
        /\ st_match' = st.match
        /\ UNCHANGED <<now, st_cancelled>>

\* PluginImpl.stop
plugin_stop ==
    /\ st_cancelled' = TRUE
    /\ NoEvent /\ UNCHANGED <<db, now, library>>

\* --------------------------------------------------------- dlg_gen_fps.py
\* Dlg._processor on song s.
gen_fps_processor(s, calc_ok) ==
    LET song == library[s]
        db_records == get_songs_by_hash(db.loc, DiffFps[song.fp]._hash,
                                        GenFpsHashDistance)
        k == find_record(db_records, song.fp)
        \* song(attrs.RATING): the host's value for a song without rating
        rating == rating_to_int(IF song.rating = None THEN 0
                                ELSE song.rating)
    IN  /\ IF ~calc_ok THEN UNCHANGED <<db, library>>
           ELSE IF k = 0
           THEN /\ has_room
                /\ db' = [db EXCEPT !.loc =
                            IF rating = 0
                            THEN add_empty_song(@, song.basename, song.fp)
                            ELSE add_song(@, song.basename, rating, song.fp)]
                /\ library' = [library EXCEPT ![s].fp_id = new_id(db.loc)]
           ELSE /\ library' =
                      take_record(HandlerState, s, db_records[k]).lib
                /\ UNCHANGED db
        /\ NoEvent
        /\ UNCHANGED <<now, st_cancelled>>

\* ------------------------------------------------ the host and the clock
\* The user rates a song in the host.
user_rates(s, q) ==
    /\ library[s].rating # q
    /\ library' = [library EXCEPT ![s].rating = q]
    /\ NoEvent /\ UNCHANGED <<db, now, st_cancelled>>

\* unixepoch() moves on.
tick ==
    /\ now < MaxNow
    /\ now' = now + 1
    /\ NoEvent /\ UNCHANGED <<db, library, st_cancelled>>

\* ----------------------------------------------------- the external store
\* Another installation shares the external store and writes to it through
\* the same prdb functions. It adds the record of a file of its own library
\* (add_song, or add_empty_song for a file without rating).
remote_add_song(rating, fp) ==
    /\ has_room
    /\ fp_is_new(db.ext, fp)
    /\ db' = [db EXCEPT !.ext =
                IF rating = UnsetRating
                THEN add_empty_song(@, SongBasename(fp), fp)
                ELSE add_song(@, SongBasename(fp), rating, fp)]
    /\ NoEvent /\ UNCHANGED <<now, library, st_cancelled>>

\* It writes a rating into a record: prdb.update_song(path, fp_id, basename,
\* rating).
remote_update_song(id, rating) ==
    /\ has_row(db.ext, id)
    /\ db' = [db EXCEPT !.ext =
                update_song(@, id, row_of(db.ext, id).basename, rating)]
    /\ NoEvent /\ UNCHANGED <<now, library, st_cancelled>>

\* It copies a record of the local store: prdb.add_record(path, rec).
remote_add_record(rec) ==
    /\ has_room
    /\ fp_is_new(db.ext, rec.fp)
    /\ db' = [db EXCEPT !.ext = add_record(@, rec)]
    /\ NoEvent /\ UNCHANGED <<now, library, st_cancelled>>

\* ---------------------------------------- dlg_sync_with_ext._task_worker
StoreDiffIdle ==
    /\ recs' = <<>> /\ inl' = <<>> /\ inr' = <<>> /\ inl_copy' = <<>>
    /\ to_addl' = <<>> /\ to_updl' = <<>> /\ to_addr' = <<>>
    /\ to_updr' = <<>> /\ timestamp' = 0 /\ diff_pc' = "idle"
    /\ orig' = <<>> /\ matches' = {}

\* Lines 308-326: the cutoff, and the records of both stores as loaded by
\* prdb.get_songs.
sync_start(ts) ==
    /\ diff_pc = "idle"
    /\ recs' = db.loc \o db.ext
    /\ inl' = [i \in 1..Len(db.loc) |-> i]
    /\ inr' = [i \in 1..Len(db.ext) |-> Len(db.loc) + i]
    /\ timestamp' = ts
    /\ orig' = [recs |-> db.loc \o db.ext,
                left |-> {i : i \in 1..Len(db.loc)},
                right |-> {Len(db.loc) + i : i \in 1..Len(db.ext)}]
    /\ inl_copy' = <<>>
    /\ to_addl' = <<>> /\ to_updl' = <<>>
    /\ to_addr' = <<>> /\ to_updr' = <<>>
    /\ diff_pc' = "call"
    /\ matches' = {}
    /\ NoEvent /\ UNCHANGED <<db, now, library, st_cancelled>>

\* The steps of _get_diff, run by the worker of the dialog.
sync_diff ==
    /\ \/ get_diff_call
       \/ step1
       \/ step2
       \/ get_diff_return
    /\ NoEvent /\ UNCHANGED <<db, now, library, st_cancelled>>

\* _update_local(rec): the songs of the library with the id of rec take its
\* rating.
update_local_songs(rec) ==
    [t \in DOMAIN library |->
        IF /\ library[t].fp_id # None
           /\ library[t].fp_id = rec.fp_id
           /\ ~are_equal(library[t].rating, rating_to_float(rec.rating))
        THEN [library[t] EXCEPT !.rating = rating_to_float(rec.rating)]
        ELSE library[t]]

\* Lines 349-364: one iteration of "for rec in to_updl".
sync_update_local ==
    /\ diff_pc = "done"
    /\ to_updl # <<>>
    /\ LET rec == recs[Head(to_updl)]
       IN  /\ db' = [db EXCEPT !.loc = force_song_update(@, rec)]
           /\ library' = update_local_songs(rec)
    /\ to_updl' = Tail(to_updl)
    /\ UNCHANGED <<recs, inl, inr, inl_copy, to_addl, to_addr, to_updr,
                   timestamp, diff_pc, orig, matches>>
    /\ NoEvent /\ UNCHANGED <<now, st_cancelled>>

\* Lines 370-372: one iteration of "for rec in to_addl".
add_local_step ==
    /\ diff_pc = "done"
    /\ to_updl = <<>>
    /\ to_addl # <<>>
    /\ LET rec == recs[Head(to_addl)]
       IN  db' = [db EXCEPT !.loc =
                    add_song(@, rec.basename, rec.rating, rec.fp)]
    /\ to_addl' = Tail(to_addl)
    /\ UNCHANGED <<recs, inl, inr, inl_copy, to_updl, to_addr, to_updr,
                   timestamp, diff_pc, orig, matches>>
    /\ NoEvent /\ UNCHANGED <<now, library, st_cancelled>>

\* The same while the stores have room for another row.
sync_add_local == has_room /\ add_local_step

\* Lines 378-380: one iteration of "for rec in to_updr".
sync_update_ext ==
    /\ diff_pc = "done"
    /\ to_updl = <<>>
    /\ to_addl = <<>>
    /\ to_updr # <<>>
    /\ db' = [db EXCEPT !.ext = force_song_update(@, recs[Head(to_updr)])]
    /\ to_updr' = Tail(to_updr)
    /\ UNCHANGED <<recs, inl, inr, inl_copy, to_addl, to_updl, to_addr,
                   timestamp, diff_pc, orig, matches>>
    /\ NoEvent /\ UNCHANGED <<now, library, st_cancelled>>

\* Lines 386-388: one iteration of "for rec in to_addr".
add_ext_step ==
    /\ diff_pc = "done"
    /\ to_updl = <<>>
    /\ to_addl = <<>>
    /\ to_updr = <<>>
    /\ to_addr # <<>>
    /\ LET rec == recs[Head(to_addr)]
       IN  db' = [db EXCEPT !.ext =
                    add_song(@, rec.basename, rec.rating, rec.fp)]
    /\ to_addr' = Tail(to_addr)
    /\ UNCHANGED <<recs, inl, inr, inl_copy, to_addl, to_updl, to_updr,
                   timestamp, diff_pc, orig, matches>>
    /\ NoEvent /\ UNCHANGED <<now, library, st_cancelled>>

\* The same while the stores have room for another row.
sync_add_ext == has_room /\ add_ext_step

\* The worker returns: after the last loop, or through one of the except
\* clauses (lines 392-401) once _get_diff has started.
sync_return ==
    /\ diff_pc \in {"run", "done"}
    /\ StoreDiffIdle
    /\ NoEvent /\ UNCHANGED <<db, now, library, st_cancelled>>

\* ----------------------------------------------------------- specification
\* Both stores as prdb.sql creates them, and a library whose songs the
\* plugin has not seen yet: files of different names, the first with the
\* audio of fingerprint 1.
StoreInit ==
    /\ db = [loc |-> <<>>, ext |-> <<>>]
    /\ now = 1
    /\ \E fps \in [1..MaxSongs -> StoreFps] :
          /\ fps[1] = 1
          /\ library = [s \in 1..MaxSongs |-> NewSong(fps[s], SongBasename(s))]
    /\ st_cancelled = FALSE
    /\ st_call = <<>>
    /\ ev = <<>>
    /\ st_match = <<>>

StoreFrame == UNCHANGED <<vars, fpVars, ygVars, cdVars, dlgVars, convVars>>

\* disabled() stops the plugin and drops it: from then on nothing but a
\* handler call already under way reaches it. The reconciliation runs in a
\* modal dialog, as one piece between the other operations.
Quiet == diff_pc = "idle" /\ UNCHANGED diffVars

Apart == ~st_cancelled /\ Quiet

StoreNext ==
    \/ /\ Quiet
       /\ \E songs \in Batches, lock_at \in 0..MaxSongs, bad \in 0..MaxSongs :
             /\ lock_at <= Len(songs)
             /\ bad <= Len(songs)
             /\ lock_at = 0 \/ bad < lock_at
             /\ on_added(songs, lock_at, bad)
       /\ StoreFrame
    \/ /\ Quiet
       /\ \E songs \in Batches, lock_at \in 0..MaxSongs, bad \in 0..MaxSongs :
             /\ lock_at <= Len(songs)
             /\ bad <= Len(songs)
             /\ lock_at = 0 \/ bad < lock_at
             /\ on_changed(songs, lock_at, bad)
       /\ StoreFrame
    \/ Apart /\ plugin_stop /\ StoreFrame
    \/ /\ Apart
       /\ \E s \in 1..MaxSongs, calc_ok \in BOOLEAN :
             gen_fps_processor(s, calc_ok)
       /\ StoreFrame
    \/ /\ Apart
       /\ \E s \in 1..MaxSongs, q \in SongRatings : user_rates(s, q)
       /\ StoreFrame
    \/ Apart /\ tick /\ StoreFrame
    \/ /\ Apart
       /\ \E q \in SongRatings, fp \in StoreFps :
             remote_add_song(rating_to_int(q), fp)
       /\ StoreFrame
    \/ /\ Apart
       /\ \E id \in 1..MaxRows, q \in SongRatings :
             remote_update_song(id, rating_to_int(q))
       /\ StoreFrame
    \/ /\ Apart
       /\ \E i \in 1..MaxRows : i <= Len(db.loc) /\ remote_add_record(db.loc[i])
       /\ StoreFrame
    \/ /\ ~st_cancelled
       /\ \E ts \in 0..MaxNow : ts <= now /\ sync_start(ts)
       /\ StoreFrame
    \/ sync_diff /\ StoreFrame
    \/ sync_update_local /\ StoreFrame
    \/ sync_add_local /\ StoreFrame
    \/ sync_update_ext /\ StoreFrame
    \/ sync_add_ext /\ StoreFrame
    \/ sync_return /\ StoreFrame

StoreStart ==
    StoreInit /\ UpdaterInit /\ FpIdle /\ DiffIdle /\ YgIdle /\ CdIdle /\ DlgIdle
    /\ ConvIdle

StoreSpec == StoreStart /\ [][StoreNext]_allVars

\* ------------------------------------------------------------------ claims
\* C22: in both stores, every record whose updated_at is absent holds the
\* unset default rating.
C22_AbsentUpdatedAtMeansUnsetRating ==
    \A d \in Stores : \A i \in DOMAIN db[d] :
        db[d][i].updated_at = None => db[d][i].rating = UnsetRating

\* The reconciliation has just forced a rating and its timestamp into a
\* record of the local store that had neither.
C22_Witness ==
    /\ diff_pc = "done"
    /\ \E i \in DOMAIN db.loc :
          /\ db.loc[i].rating # UnsetRating
          /\ db.loc[i].updated_at # None
          /\ \E k \in orig.left :
                /\ orig.recs[k].fp_id = db.loc[i].fp_id
                /\ orig.recs[k].updated_at = None

\* The ids of the records of a store.
ids(rows) == {rows[i].fp_id : i \in DOMAIN rows}

\* C24: no step removes a record id from a store: the ids a store held
\* before the step are all still there after it.
C24_RecordsNeverDeleted ==
    [][\A d \in Stores : ids(db[d]) \subseteq ids(db'[d])]_allVars

\* The reconciliation has just rewritten a record of the external store, and
\* both stores hold the record they held when it started.
C24_Witness ==
    /\ diff_pc = "done"
    /\ db.loc # <<>>
    /\ \E k \in orig.right : \E i \in DOMAIN db.ext :
          /\ db.ext[i].fp_id = orig.recs[k].fp_id
          /\ db.ext[i].rating # orig.recs[k].rating
    /\ ids(db.loc) = {orig.recs[k].fp_id : k \in orig.left}

\* C21 as claimed: when the stored basename and rating equal the arguments,
\* update_song_if_different leaves the row as it is and returns False,
\* whatever the stored updated_at is; it returns True only when it changed
\* the stored basename or rating.
C21_NoOpWhateverUpdatedAt ==
    st_call # <<>> =>
        /\ (/\ st_call.before.basename = st_call.basename
            /\ st_call.before.rating = st_call.rating)
              => (st_call.after = st_call.before /\ ~st_call.ret)
        /\ st_call.ret
              => \/ st_call.after.basename # st_call.before.basename
                 \/ st_call.after.rating # st_call.before.rating

\* C21: when the stored basename and rating equal the arguments and the
\* stored updated_at is present, update_song_if_different leaves the row as
\* it is and returns False; when the stored updated_at is absent it writes
\* and returns True; it returns True exactly when it wrote basename, rating
\* and updated_at = now, and that happens only when basename or rating
\* differed or updated_at was absent.
C21_NoOpWhenValuesMatchAndUpdatedAtPresent ==
    st_call # <<>> =>
        /\ (/\ st_call.before.basename = st_call.basename
            /\ st_call.before.rating = st_call.rating
            /\ st_call.before.updated_at # None)
              => (st_call.after = st_call.before /\ ~st_call.ret)
        /\ st_call.before.updated_at = None => st_call.ret
        /\ st_call.ret
              => /\ st_call.after =
                        [st_call.before EXCEPT !.basename = st_call.basename,
                                               !.rating = st_call.rating,
                                               !.updated_at = now]
                 /\ \/ st_call.before.basename # st_call.basename
                    \/ st_call.before.rating # st_call.rating
                    \/ st_call.before.updated_at = None
        /\ ~st_call.ret => st_call.after = st_call.before

\* on_changed has just called update_song_if_different with the basename and
\* rating a record already held since an earlier time, and got False.
C21_Witness ==
    /\ st_call # <<>>
    /\ st_call.before.basename = st_call.basename
    /\ st_call.before.rating = st_call.rating
    /\ st_call.before.updated_at # None
    /\ st_call.before.updated_at < now
    /\ st_call.before.rating # UnsetRating
    /\ ~st_call.ret

\* Two fingerprints that compare equal, whichever object's __eq__ runs.
fuzzy_equal(a, b) == DiffFpEq[a][b] \/ DiffFpEq[b][a]

\* C23: a step of on_added, on_changed or the generate-fingerprints
\* processor (the steps that add to the local store while no reconciliation
\* runs) inserts no record whose fingerprint is fuzzy-equal to that of
\* another record of the local store.
C23_NoRecordForMatchingFingerprint ==
    [][(diff_pc = "idle" /\ diff_pc' = "idle")
          => \A i \in DOMAIN db'.loc :
                i > Len(db.loc)
                   => \A j \in DOMAIN db'.loc :
                         j # i => ~fuzzy_equal(db'.loc[i].fp,
                                               db'.loc[j].fp)]_allVars

\* C25: when on_added or on_changed returns and the plugin was not stopped,
\* no song of the event batch has been left unhandled: a song at which the
\* store signalled locked/busy and the songs after it are not dropped.
C25_LockedSongAndRestOfBatchHandled == ev = <<>>

\* C38: when on_added, or on_changed for a song without a fingerprint id,
\* has matched a song to a record of the store, the song has the record's
\* id; its rating is the record's rating if the record's updated_at is
\* present and the rating it had before if updated_at is absent; no row of
\* the store and no other song was changed by that.
C38_AbsentUpdatedAtKeepsSongRating ==
    st_match # <<>> =>
        /\ st_match.after.fp_id = st_match.rec.fp_id
        /\ st_match.rec.updated_at # None
              => st_match.after.rating = rating_to_float(st_match.rec.rating)
        /\ st_match.rec.updated_at = None
              => st_match.after.rating = st_match.before.rating
        /\ st_match.rows_kept
        /\ st_match.others_kept
        /\ st_match.after.fp = st_match.before.fp
        /\ st_match.after.basename = st_match.before.basename

\* A song the user had rated was matched to a record that was never rated,
\* and has kept its rating.
C38_Witness ==
    /\ st_match # <<>>
    /\ st_match.before.fp_id = None
    /\ st_match.rec.updated_at = None
    /\ st_match.before.rating # None
    /\ st_match.before.rating # rating_to_float(st_match.rec.rating)
    /\ st_match.after.rating = st_match.before.rating
    /\ st_match.after.fp_id = st_match.rec.fp_id

\* The record a step of the reconciliation adds to store d: the head of the
\* plan list of that store.
AddedFrom(d) == recs[Head(IF d = "loc" THEN to_addl ELSE to_addr)]

\* C35: a record that a step of the reconciliation adds to a store is stored
\* with the updated_at it has in its source store; a source record with
\* absent updated_at is stored with absent updated_at.
C35_CopiedRecordKeepsUpdatedAt ==
    [][\A d \in Stores :
          (diff_pc = "done" /\ Len(db'[d]) > Len(db[d]))
             => db'[d][Len(db'[d])].updated_at = AddedFrom(d).updated_at
      ]_allVars

\* ===========================================================================
\* Part 8: the reconciliation run twice (src/dlg_sync_with_ext.py,
\* Dlg._task_worker; src/prdb.py).
\*
\* Two stores with any contents, no library songs, the clock standing still:
\* a sync run with age 0 is started, computes its plan, applies it and
\* returns, and the next run is started on the stores it left.
\* ===========================================================================

\* Sync runs started in one behaviour.
MaxRuns == 2

\* The ratings of rated records, as the store holds them.
ConvRatings == {rating_to_int(q) : q \in 1..2}

\* What a record holds besides its fingerprint: nothing yet
\* (add_empty_song), or a rating and the time it was written.
ConvStats ==
    {[rating |-> UnsetRating, updated_at |-> None]}
        \cup [rating : ConvRatings, updated_at : 1..MaxTs]

\* The rows of one store: ids in insertion order, up to MaxRecs rows whose
\* fingerprints are unique within the store (no two compare equal).
ConvContents ==
    {[i \in DOMAIN st |->
         [fp_id |-> i, basename |-> SongBasename(i),
          rating |-> st[i].stat.rating, fp |-> st[i].fp,
          updated_at |-> st[i].stat.updated_at]] :
      st \in {t \in UNION {[1..n -> [fp : DOMAIN DiffFps, stat : ConvStats]] :
                              n \in 0..MaxRecs} :
                 \A i, j \in DOMAIN t : i # j => ~fp_eq(t[i], t[j])}}

ConvInit ==
    /\ \E left \in ConvContents, right \in ConvContents :
          db = [loc |-> left, ext |-> right]
    /\ now = MaxTs
    /\ library = <<>>
    /\ st_cancelled = FALSE
    /\ st_call = <<>>
    /\ ev = <<>>
    /\ st_match = <<>>
    /\ conv_runs = 0

\* The Start button with age 0: lines 308-326.
conv_start ==
    /\ conv_runs < MaxRuns
    /\ sync_start(0)
    /\ conv_runs' = conv_runs + 1

\* The worker returns after the last loop, the plan applied: line 409.
conv_return ==
    /\ diff_pc = "done"
    /\ to_addl = <<>> /\ to_updl = <<>>
    /\ to_addr = <<>> /\ to_updr = <<>>
    /\ sync_return

ConvFrame == UNCHANGED <<vars, fpVars, ygVars, cdVars, dlgVars>>

ConvNext ==
    \/ conv_start /\ ConvFrame
    \/ sync_diff /\ UNCHANGED conv_runs /\ ConvFrame
    \/ sync_update_local /\ UNCHANGED conv_runs /\ ConvFrame
    \/ add_local_step /\ UNCHANGED conv_runs /\ ConvFrame
    \/ sync_update_ext /\ UNCHANGED conv_runs /\ ConvFrame
    \/ add_ext_step /\ UNCHANGED conv_runs /\ ConvFrame
    \/ conv_return /\ UNCHANGED conv_runs /\ ConvFrame

ConvStart ==
    ConvInit /\ UpdaterInit /\ FpIdle /\ DiffIdle /\ YgIdle /\ CdIdle /\ DlgIdle

ConvSpec == ConvStart /\ [][ConvNext]_allVars

\* ------------------------------------------------------------------ claims
\* C33: when a sync run with no cutoff has completed and applied its plan,
\* the plan the next run computes on the two stores is empty (all four
\* lists), and every record of the local store holds the same rating as
\* every record of the external store with an equal fingerprint.
C33_SyncConverges ==
    (conv_runs >= 2 /\ diff_pc = "done") =>
        /\ to_addl = <<>> /\ to_updl = <<>>
        /\ to_addr = <<>> /\ to_updr = <<>>
        /\ \A i \in DOMAIN db.loc : \A j \in DOMAIN db.ext :
              fuzzy_equal(db.loc[i].fp, db.ext[j].fp)
                  => are_equal(db.loc[i].rating, db.ext[j].rating)

====
